---------------------------- MODULE Spec2Model ----------------------------
(***************************************************************************)
(* Model of the validate -> clean -> derive pipeline of                    *)
(* stock-classification-valuation: DataValidator (data_validator.py) and   *)
(* DataPreprocessor (data_preprocessing_module.py).                        *)
(*                                                                         *)
(* A pandas DataFrame is a record [index, columns, data]: two sequences of *)
(* labels and a sequence of rows (data[i][j] is the cell at row i, column  *)
(* j).  A cell is a record [k, n, d]: a float n/d ("num"), NaN ("nan"),    *)
(* +-inf ("inf"), a text that does not parse as a number ("str") or a text *)
(* that parses as the number n ("numstr").  A label is a field or line     *)
(* item name, or a timestamp (pd.Timestamp), timezone-naive or -aware.     *)
(* A call's outcome is a record [raised, val]: raised is "" when the call  *)
(* returned val, and the exception's name when it raised.                  *)
(***************************************************************************)
EXTENDS Integers, Sequences, FiniteSets, TLC

VARIABLES
    pc,              \* the function about to be called, or where the running call stands
    df,              \* the table argument of a cleaning call
    statement_type,  \* the statement_type argument of clean_financial_statement
    data_dict,       \* the bundle argument: a sequence of [key, df], in dict order
    processed_data,  \* process_stock_data's local: the bundle built so far
    result,          \* the outcome of the last call
    first,           \* the outcome of the call before it, when a call is repeated
    now,             \* pd.Timestamp.now(), in ticks
    pandas_pad,      \* the installed pandas pads in pct_change by default
    caught,          \* the exception process_stock_data caught (line 175), "" when none
    max_age          \* the threshold passed to validate_data_freshness

vars == <<pc, df, statement_type, data_dict, processed_data, result, first, now, pandas_pad, caught, max_age>>

----------------------------------------------------------------------------
(* Bounds of the model.                                                    *)

\* most rows (timestamps) of a time-series table
MaxRows == 2
\* most period columns of a statement table
MaxPeriods == 2

----------------------------------------------------------------------------
(* Cells: floats as normalised fractions, NaN, inf, and text.              *)

NaN == [k |-> "nan", n |-> 0, d |-> 1]
PosInf == [k |-> "inf", n |-> 1, d |-> 1]
NegInf == [k |-> "inf", n |-> -1, d |-> 1]
Txt == [k |-> "str", n |-> 0, d |-> 1]
NumStr(n) == [k |-> "numstr", n |-> n, d |-> 1]

Abs(x) == IF x < 0 THEN -x ELSE x

RECURSIVE GCD(_, _)
GCD(a, b) == IF b = 0 THEN a ELSE GCD(b, a % b)

\* the float n/d (d # 0), normalised so that equal floats are equal records
Rat(n, d) ==
    LET g == GCD(Abs(n), Abs(d))
        s == IF d < 0 THEN -1 ELSE 1
    IN [k |-> "num", n |-> (s * n) \div g, d |-> (s * d) \div g]

Num(n) == [k |-> "num", n |-> n, d |-> 1]

IsText(v) == v.k \in {"str", "numstr"}
\* pandas isna / isnull: NaN is missing; inf and text are not
IsNa(v) == v.k = "nan"

\* float division (numpy): x/0 is +-inf, 0/0 and anything with NaN is NaN
FDiv(a, b) ==
    IF a.k = "nan" \/ b.k = "nan" THEN NaN
    ELSE IF a.k = "inf" /\ b.k = "inf" THEN NaN
    ELSE IF a.k = "inf" THEN (IF b.n < 0 THEN [a EXCEPT !.n = -a.n] ELSE a)
    ELSE IF b.k = "inf" THEN Num(0)
    ELSE IF b.n = 0 THEN (IF a.n = 0 THEN NaN ELSE IF a.n > 0 THEN PosInf ELSE NegInf)
    ELSE Rat(a.n * b.d, a.d * b.n)

FAdd(a, b) ==
    IF a.k = "nan" \/ b.k = "nan" THEN NaN
    ELSE IF a.k = "inf" /\ b.k = "inf" THEN (IF a.n = b.n THEN a ELSE NaN)
    ELSE IF a.k = "inf" THEN a
    ELSE IF b.k = "inf" THEN b
    ELSE Rat(a.n * b.d + b.n * a.d, a.d * b.d)

FLess(a, b) ==
    IF a.k = "nan" \/ b.k = "nan" THEN FALSE
    ELSE IF a.k = "inf" THEN (a.n < 0 /\ a # b)
    ELSE IF b.k = "inf" THEN b.n > 0
    ELSE a.n * b.d < b.n * a.d

\* pd.to_numeric(errors='coerce') on one cell
to_numeric(v) ==
    IF v.k = "numstr" THEN Num(v.n)
    ELSE IF v.k = "str" THEN NaN
    ELSE v

----------------------------------------------------------------------------
(* Labels and tables.                                                      *)

Name(s) == [kind |-> "name", name |-> s, t |-> 0, tz |-> FALSE]
\* a timezone-naive timestamp at tick t
TS(t) == [kind |-> "ts", name |-> "", t |-> t, tz |-> FALSE]
\* a timezone-aware timestamp at tick t
TSZ(t) == [kind |-> "ts", name |-> "", t |-> t, tz |-> TRUE]

\* isinstance(label, pd.Timestamp)
IsTimestamp(l) == l.kind = "ts"

DataFrame(index, columns, data) == [index |-> index, columns |-> columns, data |-> data]

\* pd.DataFrame()
EmptyDataFrame == DataFrame(<<>>, <<>>, <<>>)

NRows(t) == Len(t.index)
NCols(t) == Len(t.columns)

\* DataFrame.empty: some axis has length 0
IsEmpty(t) == NRows(t) = 0 \/ NCols(t) = 0

Range(s) == {s[i] : i \in DOMAIN s}

\* position of the first label equal to l in the axis, 0 when there is none
Pos(axis, l) ==
    IF l \in Range(axis) THEN CHOOSE i \in DOMAIN axis : axis[i] = l /\ \A h \in 1..(i - 1) : axis[h] # l
    ELSE 0

\* df[name]: the column as a sequence of cells
Column(t, name) == [i \in 1..NRows(t) |-> t.data[i][Pos(t.columns, Name(name))]]

\* df.loc[name]: the row as a sequence of cells
Row(t, name) == t.data[Pos(t.index, Name(name))]

HasColumn(t, name) == Name(name) \in Range(t.columns)
HasRow(t, name) == Name(name) \in Range(t.index)

\* df[name] = series: overwrite the column in place, or append it
SetColumn(t, name, series) ==
    IF HasColumn(t, name)
    THEN [t EXCEPT !.data = [i \in 1..NRows(t) |->
             [j \in 1..NCols(t) |-> IF j = Pos(t.columns, Name(name)) THEN series[i] ELSE t.data[i][j]]]]
    ELSE [t EXCEPT !.columns = Append(t.columns, Name(name)),
                   !.data = [i \in 1..NRows(t) |-> Append(t.data[i], series[i])]]

\* DataFrame.transpose
Transpose(t) ==
    DataFrame(t.columns, t.index,
              [j \in 1..NCols(t) |-> [i \in 1..NRows(t) |-> t.data[i][j]]])

\* apply f to every cell
MapCells(t, f(_)) ==
    [t EXCEPT !.data = [i \in 1..NRows(t) |-> [j \in 1..NCols(t) |-> f(t.data[i][j])]]]

\* Series.fillna(0)
FillZero(v) == IF IsNa(v) THEN Num(0) ELSE v

\* Series.ffill: a missing cell takes the last non-missing cell before it
RECURSIVE LastKnown(_, _)
LastKnown(s, i) ==
    IF i = 0 THEN NaN
    ELSE IF ~IsNa(s[i]) THEN s[i]
    ELSE LastKnown(s, i - 1)

SeriesFfill(s) == [i \in DOMAIN s |-> LastKnown(s, i)]

\* DataFrame.ffill: every column forward-filled down the rows
Ffill(t) ==
    [t EXCEPT !.data = [i \in 1..NRows(t) |-> [j \in 1..NCols(t) |->
        LastKnown([h \in 1..NRows(t) |-> t.data[h][j]], i)]]]

\* the subsequence of s at the positions that satisfy keep, in order
RECURSIVE SelectPos(_, _, _)
SelectPos(s, keep, i) ==
    IF i > Len(s) THEN <<>>
    ELSE (IF keep[i] THEN <<s[i]>> ELSE <<>>) \o SelectPos(s, keep, i + 1)

\* df[mask]: the rows whose mask is true
FilterRows(t, keep) ==
    [t EXCEPT !.index = SelectPos(t.index, keep, 1), !.data = SelectPos(t.data, keep, 1)]

\* ~df.index.duplicated(keep='first'): true at the first occurrence of a label
NotDuplicatedFirst(axis) == [i \in DOMAIN axis |-> \A h \in 1..(i - 1) : axis[h] # axis[i]]


----------------------------------------------------------------------------
(* Outcomes of a call.                                                     *)

Return(v) == [raised |-> "", val |-> v]
Raise(e) == [raised |-> e, val |-> EmptyDataFrame]

----------------------------------------------------------------------------
(* Series arithmetic.  Arithmetic on a series that holds a text cell is    *)
(* done cell by cell on Python objects and raises TypeError.               *)

HasText(s) == \E i \in DOMAIN s : IsText(s[i])

\* Series.pct_change(): s[i] / s[i-1] - 1, the first cell NaN.  Up to pandas
\* 2.x the default fill_method='pad' forward-fills s first; pandas 3 does not.
pct_change(s, pad) ==
    LET f == IF pad THEN SeriesFfill(s) ELSE s
    IN [i \in DOMAIN s |-> IF i = 1 THEN NaN ELSE FAdd(FDiv(f[i], f[i - 1]), Num(-1))]

RECURSIVE SumCells(_, _, _)
SumCells(s, lo, hi) == IF lo > hi THEN Num(0) ELSE FAdd(s[lo], SumCells(s, lo + 1, hi))

FMul(a, b) == FDiv(a, FDiv(Num(1), b))

\* a full window of w finite observations ends at position i
FullWindow(s, w, i) == i >= w /\ \A h \in (i - w + 1)..i : s[h].k = "num"

\* Series.rolling(window=w).mean(): NaN until w observations are in the window
RollingMean(s, w) ==
    [i \in DOMAIN s |-> IF FullWindow(s, w, i) THEN FDiv(SumCells(s, i - w + 1, i), Num(w)) ELSE NaN]

\* Series.rolling(window=w).std(): the square root (k = "sqrt") of the sample
\* variance n/d of the window, NaN until w observations are in the window
RollingStd(s, w) ==
    [i \in DOMAIN s |->
        IF FullWindow(s, w, i) /\ w > 1
        THEN LET sum == SumCells(s, i - w + 1, i)
                 sq == SumCells([h \in DOMAIN s |-> FMul(s[h], s[h])], i - w + 1, i)
                 var == FDiv(FAdd(sq, FMul(Num(-1), FDiv(FMul(sum, sum), Num(w)))), Num(w - 1))
             IN [var EXCEPT !.k = "sqrt"]
        ELSE NaN]

----------------------------------------------------------------------------
(* DataPreprocessor: the cleaning functions.                               *)

\* rolling windows of clean_historical_data
MA_50_Window == 50
MA_200_Window == 200
Volatility_Window == 20
Volume_MA_Window == 20

\* lines 32-46: the indicator columns, added to the filled, deduplicated table
add_indicators(t, pad) ==
    IF ~HasColumn(t, "Close") THEN Raise("KeyError")
    ELSE LET t1 == SetColumn(t, "Returns", pct_change(Column(t, "Close"), pad))
             t2 == SetColumn(t1, "MA_50", RollingMean(Column(t1, "Close"), MA_50_Window))
             t3 == SetColumn(t2, "MA_200", RollingMean(Column(t2, "Close"), MA_200_Window))
             t4 == SetColumn(t3, "Volatility_20D", RollingStd(Column(t3, "Returns"), Volatility_Window))
             t5 == SetColumn(t4, "Volume_MA_20", RollingMean(Column(t4, "Volume"), Volume_MA_Window))
         IN Return(t5)

\* fill_and_dedupe without the fillna(0) of line 26
fill_and_dedupe_no_fillna(t) ==
    LET t2 == Ffill(t)
    IN FilterRows(t2, NotDuplicatedFirst(t2.index))

\* fill_and_dedupe with the negation of line 30 forgotten: the duplicates are kept
fill_and_dedupe_keep_duplicates(t) ==
    LET t1 == SetColumn(t, "Volume", [i \in 1..NRows(t) |-> FillZero(Column(t, "Volume")[i])])
        t2 == Ffill(t1)
    IN FilterRows(t2, [i \in DOMAIN t2.index |-> ~NotDuplicatedFirst(t2.index)[i]])

\* fill_and_dedupe with line 30 before line 27: the duplicates are dropped
\* before the forward fill
fill_and_dedupe_drop_first(t) ==
    LET t1 == SetColumn(t, "Volume", [i \in 1..NRows(t) |-> FillZero(Column(t, "Volume")[i])])
    IN Ffill(FilterRows(t1, NotDuplicatedFirst(t1.index)))

\* lines 25-30: fill Volume with 0, forward-fill the rest, keep the first row
\* of each timestamp
fill_and_dedupe(t) ==
    LET t1 == SetColumn(t, "Volume", [i \in 1..NRows(t) |-> FillZero(Column(t, "Volume")[i])])
        t2 == Ffill(t1)
    IN FilterRows(t2, NotDuplicatedFirst(t2.index))

\* clean_historical_data without the empty check of lines 20-21
clean_historical_data_no_empty_check(t, pad) ==
    IF ~HasColumn(t, "Volume") THEN Raise("KeyError")
    ELSE add_indicators(fill_and_dedupe(t), pad)

clean_historical_data(t, pad) ==
    IF IsEmpty(t) THEN Return(t)
    ELSE IF ~HasColumn(t, "Volume") THEN Raise("KeyError")
    ELSE add_indicators(fill_and_dedupe(t), pad)

\* fill_statement with fillna(0) for every statement type
fill_statement_all_zero(t, type) == MapCells(t, FillZero)

\* lines 67-71: the missing-value policy of a statement type
fill_statement(t, type) ==
    IF type = "balance_sheet" THEN Ffill(t)
    ELSE IF type \in {"income_statement", "cash_flow"} THEN MapCells(t, FillZero)
    ELSE t

\* line 61: every column label is a pd.Timestamp
AllTimestampColumns(t) == \A j \in DOMAIN t.columns : IsTimestamp(t.columns[j])

\* lines 55-73; df.apply(pd.to_numeric, errors='coerce') converts every column
clean_financial_statement(t, type) ==
    IF IsEmpty(t) THEN Return(t)
    ELSE LET t1 == IF AllTimestampColumns(t) THEN Transpose(t) ELSE t
             t2 == MapCells(t1, to_numeric)
         IN Return(fill_statement(t2, type))

numeric_columns ==
    {"marketCap", "trailingPE", "forwardPE", "priceToBook",
     "returnOnEquity", "returnOnAssets", "totalRevenue"}

clean_info_data(t) ==
    IF IsEmpty(t) THEN Return(t)
    ELSE Return([t EXCEPT !.data = [i \in 1..NRows(t) |-> [j \in 1..NCols(t) |->
            IF t.columns[j].kind = "name" /\ t.columns[j].name \in numeric_columns
            THEN to_numeric(t.data[i][j]) ELSE t.data[i][j]]]])

----------------------------------------------------------------------------
(* DataValidator.                                                          *)

expected_columns(data_type) ==
    CASE data_type = "historical" ->
            {"Open", "High", "Low", "Close", "Volume", "Dividends", "Stock Splits"}
      [] data_type = "balance_sheet" ->
            {"Net Debt", "Total Debt", "Tangible Book Value", "Ordinary Shares Number"}
      [] data_type = "income_statement" -> {"Tax Rate For Calcs", "Normalized EBITDA"}
      [] data_type = "cash_flow" ->
            {"Free Cash Flow", "Repayment Of Debt", "Issuance Of Debt", "Capital Expenditure"}
      [] OTHER -> {}

HasExpectedColumns(data_type) ==
    data_type \in {"historical", "balance_sheet", "income_statement", "cash_flow"}

\* value_ranges.  TLC's integers have 32 bits, so each kind of cell is counted
\* in a unit of its own: prices in 1, volumes in 1e6 shares, statement amounts
\* in 1e9; the limits 1e6, 1e12 and 1e15 are each 1000000 of their unit.  The
\* code only compares these cells, fills them and divides like by like, which
\* no change of unit affects.
PriceMin == 0
PriceMax == 1000000
VolumeMin == 0
VolumeMax == 1000000
DebtMax == 1000000
EbitdaMin == 0
EbitdaMax == 1000000

\* OutOfRange with <= and >=: the limits themselves are out of range
OutOfRangeExclusive(v, lo, hi) == ~FLess(Num(lo), v) \/ ~FLess(v, Num(hi))

\* (series < lo) | (series > hi), cell by cell; a comparison with NaN is false
OutOfRange(v, lo, hi) == FLess(v, Num(lo)) \/ FLess(Num(hi), v)

\* isinstance(axis, pd.DatetimeIndex): timestamps of one timezone setting
IsDatetimeIndex(axis) ==
    /\ Len(axis) > 0
    /\ \A i \in DOMAIN axis : IsTimestamp(axis[i]) /\ axis[i].tz = axis[1].tz

NameSet(axis) == {axis[i].name : i \in {h \in DOMAIN axis : axis[h].kind = "name"}}

\* df.isnull().sum(): the number of missing cells of column j
NullCount(t, j) == Cardinality({i \in 1..NRows(t) : IsNa(t.data[i][j])})

\* null_counts[null_counts > 0].to_dict()
NullValues(t) ==
    [c \in {t.columns[j] : j \in {h \in 1..NCols(t) : NullCount(t, h) > 0}} |->
        NullCount(t, Pos(t.columns, c))]

\* the labels of the axis at the positions that satisfy bad, in order
Labels(axis, bad) == SelectPos(axis, bad, 1)

PriceFields == {"Open", "High", "Low", "Close"}

\* lines 59-65: the row's prices contradict each other
Inconsistent(t, i) ==
    LET v(f) == Column(t, f)[i] IN
    \/ FLess(v("High"), v("Low"))
    \/ FLess(v("High"), v("Open"))
    \/ FLess(v("High"), v("Close"))
    \/ FLess(v("Open"), v("Low"))
    \/ FLess(v("Close"), v("Low"))

PriceAnomalies(t, f) == [i \in 1..NRows(t) |-> OutOfRange(Column(t, f)[i], PriceMin, PriceMax)]
VolumeAnomalies(t) == [i \in 1..NRows(t) |-> OutOfRange(Column(t, "Volume")[i], VolumeMin, VolumeMax)]
Inconsistencies(t) == [i \in 1..NRows(t) |-> Inconsistent(t, i)]

AnyTrue(mask) == \E i \in DOMAIN mask : mask[i]

\* the issue categories validate_historical_data reports for the table
HistoricalIssueKeys(t) ==
    (IF ~IsDatetimeIndex(t.index) THEN {"invalid_index"} ELSE {})
    \cup (IF expected_columns("historical") \ NameSet(t.columns) # {} THEN {"missing_columns"} ELSE {})
    \cup (IF DOMAIN NullValues(t) # {} THEN {"null_values"} ELSE {})
    \cup {f \o "_anomalies" : f \in {g \in PriceFields : HasColumn(t, g) /\ AnyTrue(PriceAnomalies(t, g))}}
    \cup (IF (\A f \in PriceFields : HasColumn(t, f)) /\ AnyTrue(Inconsistencies(t))
          THEN {"price_inconsistencies"} ELSE {})
    \cup (IF HasColumn(t, "Volume") /\ AnyTrue(VolumeAnomalies(t)) THEN {"volume_anomalies"} ELSE {})

HistoricalIssue(t, key) ==
    CASE key = "invalid_index" -> "Index is not DatetimeIndex"
      [] key = "missing_columns" -> expected_columns("historical") \ NameSet(t.columns)
      [] key = "null_values" -> NullValues(t)
      [] key = "price_inconsistencies" -> Labels(t.index, Inconsistencies(t))
      [] key = "volume_anomalies" -> Labels(t.index, VolumeAnomalies(t))
      [] OTHER -> Labels(t.index, PriceAnomalies(t, CHOOSE f \in PriceFields : key = f \o "_anomalies"))

\* validate_historical_data: (status, issues); comparing a text cell with a
\* number raises TypeError
validate_historical_data(t) ==
    IF \E f \in PriceFields \cup {"Volume"} : HasColumn(t, f) /\ HasText(Column(t, f))
    THEN Raise("TypeError")
    ELSE Return([status |-> HistoricalIssueKeys(t) = {},
                 issues |-> [key \in HistoricalIssueKeys(t) |-> HistoricalIssue(t, key)]])

\* lines 105-124: the metrics of the data type that are range-checked
RangedMetrics(data_type) ==
    CASE data_type = "balance_sheet" -> {"Net Debt", "Total Debt"}
      [] data_type = "income_statement" -> {"Normalized EBITDA"}
      [] OTHER -> {}

MetricIssueKey(metric) ==
    CASE metric = "Net Debt" -> "invalid_net_debt"
      [] metric = "Total Debt" -> "invalid_total_debt"
      [] OTHER -> "invalid_ebitda"

MetricAnomalies(t, metric) ==
    [j \in 1..NCols(t) |->
        IF metric = "Normalized EBITDA" THEN OutOfRange(Row(t, metric)[j], EbitdaMin, EbitdaMax)
        ELSE OutOfRange(Row(t, metric)[j], -DebtMax, DebtMax)]

NonDateColumns(t) == [j \in 1..NCols(t) |-> ~IsTimestamp(t.columns[j])]

FundamentalIssueKeys(data_type, t) ==
    (IF AnyTrue(NonDateColumns(t)) THEN {"non_date_columns"} ELSE {})
    \cup (IF HasExpectedColumns(data_type) /\ expected_columns(data_type) \ NameSet(t.index) # {}
          THEN {"missing_metrics"} ELSE {})
    \cup (IF DOMAIN NullValues(t) # {} THEN {"null_values"} ELSE {})
    \cup {MetricIssueKey(m) : m \in {g \in RangedMetrics(data_type) :
                                        HasRow(t, g) /\ AnyTrue(MetricAnomalies(t, g))}}

FundamentalIssue(data_type, t, key) ==
    CASE key = "non_date_columns" -> Labels(t.columns, NonDateColumns(t))
      [] key = "missing_metrics" -> expected_columns(data_type) \ NameSet(t.index)
      [] key = "null_values" -> NullValues(t)
      [] OTHER -> Labels(t.columns, MetricAnomalies(t, CHOOSE m \in RangedMetrics(data_type) :
                                                           MetricIssueKey(m) = key))

\* validate_fundamental_data: (status, issues); comparing a text cell of a
\* range-checked metric with a number raises TypeError
validate_fundamental_data(data_type, t) ==
    IF \E m \in RangedMetrics(data_type) : HasRow(t, m) /\ HasText(Row(t, m))
    THEN Raise("TypeError")
    ELSE Return([status |-> FundamentalIssueKeys(data_type, t) = {},
                 issues |-> [key \in FundamentalIssueKeys(data_type, t) |->
                                FundamentalIssue(data_type, t, key)]])

\* ticks of the model's clock in a day
TicksPerDay == 2
\* validate_data_freshness(df, max_age=90)
max_age_days_default == 90

\* the latest tick of an axis of timestamps
MaxTick(axis) == CHOOSE m \in {axis[i].t : i \in DOMAIN axis} : \A i \in DOMAIN axis : axis[i].t <= m

\* (status, message): the message is its text and the numbers formatted into it
Freshness(status, text, age, max_age_days) ==
    [status |-> status, message |-> [text |-> text, age |-> age, max_age_days |-> max_age_days]]

\* lines 149-152: (pd.Timestamp.now() - latest_date).days against the threshold;
\* the message of a stale table states age and max_age_days
AgeCheck(latest, max_age_days, clock) ==
    LET age == (clock - latest) \div TicksPerDay IN
    IF age > max_age_days
    THEN Freshness(FALSE, "Data is {age} days old (max allowed: {max_age_days})", age, max_age_days)
    ELSE Freshness(TRUE, "Data is fresh", 0, 0)

\* validate_data_freshness: the row axis's latest timestamp with its timezone
\* removed, else the column axis's latest timestamp as it is; subtracting a
\* timezone-aware timestamp from now() raises and is caught (line 154)
validate_data_freshness(t, max_age_days, clock) ==
    IF IsEmpty(t) THEN Freshness(FALSE, "Empty DataFrame", 0, 0)
    ELSE IF IsDatetimeIndex(t.index) THEN AgeCheck(MaxTick(t.index), max_age_days, clock)
    ELSE IF AllTimestampColumns(t)
         THEN IF \E j \in DOMAIN t.columns : t.columns[j].tz
              THEN Freshness(FALSE, "Error checking data freshness: TypeError", 0, 0)
              ELSE AgeCheck(MaxTick(t.columns), max_age_days, clock)
    ELSE Freshness(FALSE, "No valid dates found", 0, 0)

\* 'historical' in data_type.lower()
IsHistoricalKey(data_type) ==
    data_type \in {"historical_1y_1d", "historical_5y_1wk", "historical_max_1mo"}

\* lines 174-183: the detailed checks of one table and its freshness
detailed_validation(data_type, t, clock) ==
    LET o == IF IsHistoricalKey(data_type) THEN validate_historical_data(t)
             ELSE validate_fundamental_data(data_type, t)
    IN IF o.raised # "" THEN o
       ELSE Return([status |-> o.val.status, issues |-> o.val.issues,
                    freshness |-> validate_data_freshness(t, max_age_days_default, clock)])

\* validate_table without the try/except of lines 174 and 185-188
validate_table_no_except(data_type, t, clock) ==
    IF IsEmpty(t) THEN Return([status |-> FALSE, issues |-> [error |-> "Empty DataFrame"]])
    ELSE detailed_validation(data_type, t, clock)

\* validate_table without the empty-table branch of lines 168-172
validate_table_no_empty_check(data_type, t, clock) ==
    LET o == detailed_validation(data_type, t, clock)
    IN IF o.raised # "" THEN Return([status |-> FALSE, issues |-> [error |-> o.raised]])
       ELSE o

\* lines 165-190: the body of the loop, the results of one table
validate_table(data_type, t, clock) ==
    IF IsEmpty(t) THEN Return([status |-> FALSE, issues |-> [error |-> "Empty DataFrame"]])
    ELSE LET o == detailed_validation(data_type, t, clock)
         IN IF o.raised # "" THEN Return([status |-> FALSE, issues |-> [error |-> o.raised]])
            ELSE o

\* a bundle is a sequence of entries [key, val], in the dict's order
Entry(key, val) == [key |-> key, val |-> val]
Keys(bundle) == {bundle[i].key : i \in DOMAIN bundle}
Get(bundle, key) == bundle[CHOOSE i \in DOMAIN bundle : bundle[i].key = key].val

\* lines 163-192, given the outcome of the loop body for every table: the
\* first exception that leaves the loop body leaves the function
collect_results(bundle, outs) ==
    IF \E i \in DOMAIN bundle : outs[i].raised # ""
    THEN Raise(outs[CHOOSE i \in DOMAIN bundle :
                       outs[i].raised # "" /\ \A h \in 1..(i - 1) : outs[h].raised = ""].raised)
    ELSE Return([i \in DOMAIN bundle |-> Entry(bundle[i].key, outs[i].val)])

\* run_all_validations: the results of every table; an exception that leaves
\* the loop body leaves the function
run_all_validations(bundle, clock) ==
    collect_results(bundle,
        [i \in DOMAIN bundle |-> validate_table(bundle[i].key, bundle[i].val, clock)])

----------------------------------------------------------------------------
(* DataPreprocessor.calculate_financial_ratios.                            *)

\* data_dict.get(key) is not None
Has(bundle, key) == key \in Keys(bundle)

\* lines 98-102 with the income statement tried first
DatesSourceIncomeFirst(bundle) ==
    IF Has(bundle, "income_statement") /\ ~IsEmpty(Get(bundle, "income_statement"))
    THEN "income_statement"
    ELSE IF Has(bundle, "balance_sheet") /\ ~IsEmpty(Get(bundle, "balance_sheet")) THEN "balance_sheet"
    ELSE "None"

\* lines 98-102: the columns of the first of balance sheet and income statement
\* that is there and not empty
DatesSource(bundle) ==
    IF Has(bundle, "balance_sheet") /\ ~IsEmpty(Get(bundle, "balance_sheet")) THEN "balance_sheet"
    ELSE IF Has(bundle, "income_statement") /\ ~IsEmpty(Get(bundle, "income_statement"))
         THEN "income_statement"
    ELSE "None"

\* the ratio fields in the order of lines 113-124
RatioFields == <<"Debt_Ratio", "Tangible_Book_Value_Growth", "EBITDA_Growth", "FCF_Growth">>

RatioStatement(field) ==
    CASE field = "EBITDA_Growth" -> "income_statement"
      [] field = "FCF_Growth" -> "cash_flow"
      [] OTHER -> "balance_sheet"

RatioRows(field) ==
    CASE field = "Debt_Ratio" -> {"Total Debt", "Net Debt"}
      [] field = "Tangible_Book_Value_Growth" -> {"Tangible Book Value"}
      [] field = "EBITDA_Growth" -> {"Normalized EBITDA"}
      [] OTHER -> {"Free Cash Flow"}

\* the guard of the field: its statement is there and has the rows it reads
RatioGuard(bundle, field) ==
    /\ Has(bundle, RatioStatement(field))
    /\ \A r \in RatioRows(field) : HasRow(Get(bundle, RatioStatement(field)), r)

\* the field's arithmetic meets a text cell and raises TypeError
RatioRaises(bundle, field) ==
    /\ RatioGuard(bundle, field)
    /\ \E r \in RatioRows(field) : HasText(Row(Get(bundle, RatioStatement(field)), r))

\* Debt_Ratio with the totals of all periods divided, not each period's own
DebtRatioAggregated(t) ==
    LET n == NCols(t) IN
    [j \in 1..n |-> FDiv(SumCells(Row(t, "Total Debt"), 1, n), SumCells(Row(t, "Net Debt"), 1, n))]

\* line 115: bs.loc['Total Debt'] / bs.loc['Net Debt'], period by period
DebtRatio(t) ==
    [j \in 1..NCols(t) |-> FDiv(Row(t, "Total Debt")[j], Row(t, "Net Debt")[j])]

\* the right-hand side of the field's assignment, a series over the columns of
\* its statement
RatioSeries(bundle, field, pad) ==
    LET t == Get(bundle, RatioStatement(field)) IN
    IF field = "Debt_Ratio" THEN DebtRatio(t)
    ELSE pct_change(Row(t, CHOOSE r \in RatioRows(field) : TRUE), pad)

\* ratios[field] = series: the series aligned on the labels of ratios.index, NaN
\* where the series has no such label
Align(series, axis, dates) ==
    [i \in DOMAIN dates |-> IF Pos(axis, dates[i]) = 0 THEN NaN ELSE series[Pos(axis, dates[i])]]

\* the ratio table after the first k fields of RatioFields
RECURSIVE RatiosAfter(_, _, _)
RatiosAfter(bundle, k, pad) ==
    IF k = 0
    THEN LET dates == Get(bundle, DatesSource(bundle)).columns
         IN DataFrame(dates, <<>>, [i \in DOMAIN dates |-> <<>>])
    ELSE LET before == RatiosAfter(bundle, k - 1, pad)
             field == RatioFields[k]
         IN IF RatioGuard(bundle, field)
            THEN SetColumn(before, field,
                           Align(RatioSeries(bundle, field, pad),
                                 Get(bundle, RatioStatement(field)).columns, before.index))
            ELSE before

\* calculate_financial_ratios with the except clause returning the table built
\* so far
calculate_financial_ratios_partial(bundle, pad) ==
    IF DatesSource(bundle) = "None" THEN Return(EmptyDataFrame)
    ELSE IF \E k \in DOMAIN RatioFields : RatioRaises(bundle, RatioFields[k])
         THEN Return(RatiosAfter(bundle,
                (CHOOSE k \in DOMAIN RatioFields :
                    /\ RatioRaises(bundle, RatioFields[k])
                    /\ \A h \in 1..(k - 1) : ~RatioRaises(bundle, RatioFields[h])) - 1, pad))
    ELSE Return(RatiosAfter(bundle, Len(RatioFields), pad))

\* calculate_financial_ratios: an exception anywhere is caught and an empty
\* table returned (lines 128-130)
calculate_financial_ratios(bundle, pad) ==
    IF DatesSource(bundle) = "None" THEN Return(EmptyDataFrame)
    ELSE IF \E k \in DOMAIN RatioFields : RatioRaises(bundle, RatioFields[k])
         THEN Return(EmptyDataFrame)
    ELSE Return(RatiosAfter(bundle, Len(RatioFields), pad))

----------------------------------------------------------------------------
(* DataPreprocessor.process_stock_data, step by step.                      *)

\* processed_data[key] = val
Put(bundle, key, val) ==
    IF key \in Keys(bundle)
    THEN [i \in DOMAIN bundle |-> IF bundle[i].key = key THEN Entry(key, val) ELSE bundle[i]]
    ELSE Append(bundle, Entry(key, val))

\* lines 143-145: the loop over the keys of data_dict from position i on; a
\* raise leaves the loop with the entries stored so far
RECURSIVE historical_loop(_, _, _, _)
historical_loop(bundle, i, acc, pad) ==
    IF i > Len(bundle) THEN [raised |-> "", val |-> acc]
    ELSE IF IsHistoricalKey(bundle[i].key)
         THEN LET o == clean_historical_data(bundle[i].val, pad)
              IN IF o.raised # "" THEN [raised |-> o.raised, val |-> acc]
                 ELSE historical_loop(bundle, i + 1, Put(acc, bundle[i].key, o.val), pad)
    ELSE historical_loop(bundle, i + 1, acc, pad)

\* df.index.dtype == 'datetime64[ns]': an axis of timezone-naive timestamps; a
\* timezone-aware axis has the dtype datetime64[ns, tz]
IsDatetime64ns(axis) ==
    /\ Len(axis) > 0
    /\ \A i \in DOMAIN axis : IsTimestamp(axis[i]) /\ ~axis[i].tz

\* lines 150-151: move the dates back to the columns
reorient(t) == IF IsDatetime64ns(t.index) THEN Transpose(t) ELSE t

\* lines 168-169 with the test inverted
with_ratios_inverted(bundle, ratios) ==
    IF IsEmpty(ratios) THEN Put(bundle, "financial_ratios", ratios) ELSE bundle

\* lines 168-169: the ratio table is stored unless it is empty
with_ratios(bundle, ratios) ==
    IF ~IsEmpty(ratios) THEN Put(bundle, "financial_ratios", ratios) ELSE bundle

\* process_stock_data without the try/except: the exception leaves the function
on_exception_propagate(bundle, e) == [raised |-> e, val |-> bundle]

\* lines 175-178: the exception is logged and processed_data returned as it is
on_exception(bundle, e) == [raised |-> "", val |-> bundle]

StatementKeys == <<"balance_sheet", "income_statement", "cash_flow">>

----------------------------------------------------------------------------
(* Input tables of the cleaning calls.                                     *)

\* every table with the given axes and cells drawn from Cells
Tables(index, columns, Cells) ==
    {DataFrame(index, columns, d) : d \in [1..Len(index) -> [1..Len(columns) -> Cells]]}

\* time-series cells are floats or missing (spec section 3; the collector's
\* price history is numeric)
HistCells == {NaN, Num(0), Num(2)}

\* time-ordered row axes of at most MaxRows timestamps, duplicates included
HistIndexes ==
    UNION {{[i \in 1..n |-> TS(q[i])] :
                q \in {q \in [1..n -> 1..MaxRows] : \A i \in 1..(n - 1) : q[i] <= q[i + 1]}} :
           n \in 0..MaxRows}

HistColumnSets == {<<Name("Close"), Name("Volume")>>, <<Name("Close")>>, <<Name("Volume")>>, <<>>}

HistInputs == UNION {Tables(i, c, HistCells) : i \in HistIndexes, c \in HistColumnSets}

\* statement cells as collected: floats, missing, text
StmtCells == {NaN, Num(2), Txt, NumStr(3)}
SecondItemCells == {NaN, Num(5)}

\* period column axes of n labels: newest first (as collected), oldest first,
\* timezone-aware, and with a label that is no timestamp
PeriodAxes(n) ==
    {[j \in 1..n |-> TS(n + 1 - j)], [j \in 1..n |-> TS(j)], [j \in 1..n |-> TSZ(n + 1 - j)],
     [j \in 1..n |-> IF j = n THEN Name("TTM") ELSE TS(n - j)]}

StmtColumnSets == UNION {PeriodAxes(n) : n \in 0..MaxPeriods}

\* statement tables of one or two line items
StmtTables(item1, item2) ==
    UNION {Tables(<<Name(item1)>>, c, StmtCells) \cup Tables(<<>>, c, StmtCells)
           \cup {DataFrame(<<Name(item1), Name(item2)>>, c, <<a, b>>) :
                    a \in [1..Len(c) -> StmtCells], b \in [1..Len(c) -> SecondItemCells]} :
           c \in StmtColumnSets}

StmtInputs == StmtTables("Total Debt", "Net Debt")

StatementTypes == {"balance_sheet", "income_statement", "cash_flow", "other"}

InfoInputs ==
    Tables(<<Name("0")>>, <<Name("marketCap"), Name("sector")>>, {NaN, Num(2), Txt, NumStr(3)})
    \cup {EmptyDataFrame}

NoBundle == <<>>
NoOutcome == Raise("no call yet")

----------------------------------------------------------------------------
(* SpecClean: one cleaning function is called on one table; the result of  *)
(* clean_historical_data may be cleaned once more.                         *)

InitClean ==
    /\ pc \in {"clean_historical_data", "clean_financial_statement", "clean_info_data"}
    /\ df \in CASE pc = "clean_historical_data" -> HistInputs
                [] pc = "clean_financial_statement" -> StmtInputs
                [] OTHER -> InfoInputs
    /\ statement_type \in IF pc = "clean_financial_statement" THEN StatementTypes ELSE {""}
    /\ pandas_pad \in IF pc = "clean_historical_data" THEN BOOLEAN ELSE {TRUE}
    /\ data_dict = NoBundle
    /\ processed_data = NoBundle
    /\ result = NoOutcome
    /\ first = NoOutcome
    /\ now = 0
    /\ caught = ""
    /\ max_age = max_age_days_default

CleanHistorical ==
    /\ pc = "clean_historical_data"
    /\ result' = clean_historical_data(df, pandas_pad)
    /\ pc' = "historical_cleaned"
    /\ UNCHANGED <<df, statement_type, data_dict, processed_data, first, now, pandas_pad, caught, max_age>>

CleanHistoricalAgain ==
    /\ pc = "historical_cleaned"
    /\ result.raised = ""
    /\ first' = result
    /\ result' = clean_historical_data(result.val, pandas_pad)
    /\ pc' = "historical_recleaned"
    /\ UNCHANGED <<df, statement_type, data_dict, processed_data, now, pandas_pad, caught, max_age>>

CleanStatement ==
    /\ pc = "clean_financial_statement"
    /\ result' = clean_financial_statement(df, statement_type)
    /\ pc' = "statement_cleaned"
    /\ UNCHANGED <<df, statement_type, data_dict, processed_data, first, now, pandas_pad, caught, max_age>>

CleanInfo ==
    /\ pc = "clean_info_data"
    /\ result' = clean_info_data(df)
    /\ pc' = "info_cleaned"
    /\ UNCHANGED <<df, statement_type, data_dict, processed_data, first, now, pandas_pad, caught, max_age>>

NextClean == CleanHistorical \/ CleanHistoricalAgain \/ CleanStatement \/ CleanInfo

SpecClean == InitClean /\ [][NextClean]_vars

----------------------------------------------------------------------------
(* Claims about the cleaning functions, checked under SpecClean.           *)

\* a cell that holds a number, as a float or as text that parses
Known(v) == v.k \in {"num", "numstr"}
Value(v) == IF v.k = "numstr" THEN Num(v.n) ELSE v

StatementCleaned ==
    pc = "statement_cleaned" /\ ~IsEmpty(df) /\ AllTimestampColumns(df) /\ result.raised = ""

\* C6: on a statement whose columns are periods, clean_financial_statement with
\* balance_sheet gives a missing cell the adjacent preceding period's known
\* value and leaves a cell with no known value before it missing, while with
\* income_statement or cash_flow every missing cell becomes 0 and none is left.
C6_FillPolicyByStatementType ==
    StatementCleaned =>
        \A i \in 1..NRows(df), p \in 1..NCols(df) :
            LET cell == result.val.data[p][i] IN
            /\ (statement_type = "balance_sheet" /\ ~Known(df.data[i][p])) =>
                  /\ (p > 1 /\ Known(df.data[i][p - 1])) => cell = Value(df.data[i][p - 1])
                  /\ (\A q \in 1..(p - 1) : ~Known(df.data[i][q])) => IsNa(cell)
            /\ statement_type \in {"income_statement", "cash_flow"} =>
                  /\ ~IsNa(cell)
                  /\ ~Known(df.data[i][p]) => cell = Num(0)

\* a balance sheet with a missing cell after a known one, filled with it
C6_Witness ==
    /\ StatementCleaned
    /\ statement_type = "balance_sheet"
    /\ \E i \in 1..NRows(df), p \in 2..NCols(df) :
          /\ IsNa(df.data[i][p])
          /\ df.data[i][p - 1] = Num(2)
          /\ result.val.data[p][i] = Num(2)

IndicatorFields == {"Returns", "MA_50", "MA_200", "Volatility_20D", "Volume_MA_20"}

\* C7: for a non-empty time series with Volume and Close, clean_historical_data
\* returns a table with no missing Volume cell and with the five indicator fields.
C7_VolumeFilledIndicatorsAdded ==
    (pc = "historical_cleaned" /\ ~IsEmpty(df) /\ HasColumn(df, "Volume") /\ HasColumn(df, "Close")) =>
        /\ result.raised = ""
        /\ \A i \in 1..NRows(result.val) : ~IsNa(Column(result.val, "Volume")[i])
        /\ \A f \in IndicatorFields : HasColumn(result.val, f)

\* a table whose first Volume cell is missing, cleaned to a Volume of 0
C7_Witness ==
    /\ pc = "historical_cleaned"
    /\ NRows(df) = MaxRows
    /\ HasColumn(df, "Volume") /\ HasColumn(df, "Close")
    /\ IsNa(Column(df, "Volume")[1])
    /\ result.raised = ""
    /\ Column(result.val, "Volume")[1] = Num(0)

\* C8: cleaning the output of clean_historical_data again keeps the rows and the
\* fields, and every cell that was not missing keeps its value.
C8_CleanHistoricalIdempotent ==
    pc = "historical_recleaned" =>
        /\ result.raised = ""
        /\ result.val.index = first.val.index
        /\ result.val.columns = first.val.columns
        /\ \A i \in 1..NRows(first.val), j \in 1..NCols(first.val) :
              ~IsNa(first.val.data[i][j]) => result.val.data[i][j] = first.val.data[i][j]

\* a table with a duplicate timestamp and a missing Close, cleaned twice, whose
\* first output holds a defined return
C8_Witness ==
    /\ pc = "historical_recleaned"
    /\ \E i \in 2..NRows(df) : df.index[i] = df.index[i - 1]
    /\ HasColumn(df, "Close") /\ \E i \in 1..NRows(df) : IsNa(Column(df, "Close")[i])
    /\ NRows(first.val) > 0
    /\ result.raised = ""

\* C9: every cleaning function returns an empty table as it is, and does not raise.
C9_EmptyTableUnchanged ==
    (pc \in {"historical_cleaned", "statement_cleaned", "info_cleaned"} /\ IsEmpty(df)) =>
        result = Return(df)

\* clean_historical_data returned a table with rows but no field (no Volume)
C9_Witness ==
    /\ pc = "historical_cleaned"
    /\ NRows(df) > 0 /\ NCols(df) = 0
    /\ result = Return(df)

----------------------------------------------------------------------------
(* Input bundles of calculate_financial_ratios.                            *)

\* the period columns of a collected statement: n period ends, newest first
PeriodAxis(n) == [j \in 1..n |-> TS(n + 1 - j)]

\* a row over n periods with the cells 2, 4, 6, ...
Rising(n) == [j \in 1..n |-> Num(2 * j)]

\* balance sheets with every pattern of debt cells
BsRich ==
    {DataFrame(<<Name("Total Debt"), Name("Net Debt")>>, PeriodAxis(Len(a)), <<a, b>>) :
        <<a, b>> \in UNION {[1..n -> {NaN, Num(0), Num(2), Num(-4)}] \X [1..n -> {NaN, Num(0), Num(2)}] :
                              n \in 1..MaxPeriods}}

\* a few balance sheets: the test fixture's rows, one debt row only, a text
\* cell, and the empty table
BsSmall ==
    {DataFrame(<<Name("Net Debt"), Name("Total Debt"), Name("Tangible Book Value")>>,
               PeriodAxis(MaxPeriods), <<Rising(MaxPeriods), Rising(MaxPeriods), tbv>>) :
        tbv \in {Rising(MaxPeriods), [j \in 1..MaxPeriods |-> IF j = 1 THEN Txt ELSE Num(2)]}}
    \cup {DataFrame(<<Name(r)>>, PeriodAxis(MaxPeriods), <<Rising(MaxPeriods)>>) :
            r \in {"Total Debt", "Net Debt"}}
    \cup {EmptyDataFrame}

IsRich ==
    UNION {Tables(<<Name("Normalized EBITDA")>>, PeriodAxis(n), {NaN, Num(0), Num(2), Txt}) :
             n \in 1..MaxPeriods}

IsSmall ==
    {DataFrame(<<Name("Normalized EBITDA")>>, PeriodAxis(MaxPeriods), <<Rising(MaxPeriods)>>),
     DataFrame(<<Name("Tax Rate For Calcs")>>, PeriodAxis(1), << <<Txt>> >>)}

CfSmall ==
    {DataFrame(<<Name("Free Cash Flow")>>, PeriodAxis(MaxPeriods), <<row>>) :
        row \in {Rising(MaxPeriods), [j \in 1..MaxPeriods |-> IF j = 1 THEN Txt ELSE Num(2)]}}

\* the bundles with at most one table of each pool, in the collector's order
Optional(key, pool) == {<<>>} \cup {<<Entry(key, t)>> : t \in pool}

Bundles(bs, is, cf) ==
    {b \o i \o c : b \in Optional("balance_sheet", bs), i \in Optional("income_statement", is),
                   c \in Optional("cash_flow", cf)}

\* the same n period ends, oldest first
PeriodAxisAscending(n) == [j \in 1..n |-> TS(j)]

GrowthCells == {NaN, Num(0), Num(2), Num(4)}

\* the three statements of the test fixture over one shared period axis, in
\* either order, with every pattern of Tangible Book Value
SharedAxisBundles ==
    UNION {{<<Entry("balance_sheet",
                    DataFrame(<<Name("Net Debt"), Name("Total Debt"), Name("Tangible Book Value")>>,
                              axis, <<Rising(Len(axis)), Rising(Len(axis)), tbv>>)),
              Entry("income_statement",
                    DataFrame(<<Name("Normalized EBITDA")>>, axis, <<ebitda>>)),
              Entry("cash_flow", DataFrame(<<Name("Free Cash Flow")>>, axis, <<fcf>>))>> :
                tbv \in [1..Len(axis) -> GrowthCells],
                ebitda \in {Rising(Len(axis)), [j \in 1..Len(axis) |-> Num(2 * (Len(axis) + 1 - j))]},
                fcf \in {Rising(Len(axis)), [j \in 1..Len(axis) |-> IF j = 1 THEN NaN ELSE Num(-4)]}} :
           axis \in UNION {{PeriodAxis(n), PeriodAxisAscending(n)} : n \in 1..MaxPeriods}}

RatioBundles ==
    Bundles(BsRich, IsSmall, CfSmall) \cup Bundles(BsSmall, IsRich, CfSmall) \cup SharedAxisBundles

----------------------------------------------------------------------------
(* SpecRatios: calculate_financial_ratios is called on one bundle.         *)

InitRatios ==
    /\ pc = "calculate_financial_ratios"
    /\ data_dict \in RatioBundles
    /\ pandas_pad \in BOOLEAN
    /\ df = EmptyDataFrame
    /\ statement_type = ""
    /\ processed_data = NoBundle
    /\ result = NoOutcome
    /\ first = NoOutcome
    /\ now = 0
    /\ caught = ""
    /\ max_age = max_age_days_default

CalculateRatios ==
    /\ pc = "calculate_financial_ratios"
    /\ result' = calculate_financial_ratios(data_dict, pandas_pad)
    /\ pc' = "ratios_returned"
    /\ UNCHANGED <<df, statement_type, data_dict, processed_data, first, now, pandas_pad, caught, max_age>>

NextRatios == CalculateRatios

SpecRatios == InitRatios /\ [][NextRatios]_vars

----------------------------------------------------------------------------
(* Claims about calculate_financial_ratios, checked under SpecRatios.      *)

HasDebtRows(bundle) ==
    /\ Has(bundle, "balance_sheet")
    /\ HasRow(Get(bundle, "balance_sheet"), "Total Debt")
    /\ HasRow(Get(bundle, "balance_sheet"), "Net Debt")

\* the cell of the balance sheet's row at the period, missing when the balance
\* sheet has no such period
AtPeriod(bundle, row, period) ==
    LET bs == Get(bundle, "balance_sheet") IN
    IF Pos(bs.columns, period) = 0 THEN NaN ELSE Row(bs, row)[Pos(bs.columns, period)]

\* C10 as stated: Debt_Ratio is in the returned table exactly when the balance
\* sheet has a Total Debt row and a Net Debt row.
C10_DebtRatioIffRows ==
    pc = "ratios_returned" => (HasColumn(result.val, "Debt_Ratio") <=> HasDebtRows(data_dict))

\* C10, amended: in a returned table that has period rows, Debt_Ratio is present
\* exactly when the balance sheet has a Total Debt row and a Net Debt row, and its
\* value at each period is that period's Total Debt divided by that period's Net
\* Debt; the empty table returned after a fault has no Debt_Ratio.
C10_DebtRatioPerPeriod ==
    pc = "ratios_returned" =>
        /\ result.raised = ""
        /\ NRows(result.val) = 0 => ~HasColumn(result.val, "Debt_Ratio")
        /\ NRows(result.val) > 0 =>
              /\ HasColumn(result.val, "Debt_Ratio") <=> HasDebtRows(data_dict)
              /\ HasDebtRows(data_dict) =>
                    \A i \in 1..NRows(result.val) :
                        Column(result.val, "Debt_Ratio")[i] =
                            FDiv(AtPeriod(data_dict, "Total Debt", result.val.index[i]),
                                 AtPeriod(data_dict, "Net Debt", result.val.index[i]))

\* two periods with different debt ratios, each computed from its own period
C10_Witness ==
    /\ pc = "ratios_returned"
    /\ HasDebtRows(data_dict)
    /\ NRows(result.val) = MaxPeriods
    /\ Column(result.val, "Debt_Ratio")[1] = Num(1)
    /\ Column(result.val, "Debt_Ratio")[2] = Num(-2)

\* the test scenario: the three statements have the fixture's rows over the same
\* period columns
SharedPeriods(bundle) ==
    /\ Keys(bundle) = {"balance_sheet", "income_statement", "cash_flow"}
    /\ NameSet(Get(bundle, "balance_sheet").index) = {"Net Debt", "Total Debt", "Tangible Book Value"}
    /\ NameSet(Get(bundle, "income_statement").index) = {"Normalized EBITDA"}
    /\ NameSet(Get(bundle, "cash_flow").index) = {"Free Cash Flow"}
    /\ Get(bundle, "income_statement").columns = Get(bundle, "balance_sheet").columns
    /\ Get(bundle, "cash_flow").columns = Get(bundle, "balance_sheet").columns

GrowthFields == {"Tangible_Book_Value_Growth", "EBITDA_Growth", "FCF_Growth"}

\* the row of the returned table that holds the earliest reporting period
EarliestRow ==
    CHOOSE i \in 1..NRows(result.val) :
        \A h \in 1..NRows(result.val) : result.val.index[i].t <= result.val.index[h].t

\* C11: for the three statements of the test scenario over the same N period
\* columns, none holding text, the returned table has exactly those N periods
\* as rows and exactly the four ratio fields as columns, and each growth field
\* is missing at the first period, the one that has no prior period to compare
\* with.
C11_SharedPeriodsScenario ==
    (pc = "ratios_returned" /\ SharedPeriods(data_dict)
        /\ \A i \in DOMAIN data_dict : ~\E r \in DOMAIN data_dict[i].val.data :
               HasText(data_dict[i].val.data[r])) =>
        /\ result.raised = ""
        /\ result.val.index = Get(data_dict, "balance_sheet").columns
        /\ NameSet(result.val.columns) = Range(RatioFields)
        /\ NCols(result.val) = Len(RatioFields)
        /\ \A f \in GrowthFields : IsNa(Column(result.val, f)[EarliestRow])

\* the fractional change of the row from the reporting period immediately
\* before the period in time to the period; missing when there is none
ChangeFromPriorPeriod(t, row, period) ==
    LET at == Pos(t.columns, period)
        earlier == {j \in DOMAIN t.columns : t.columns[j].t < period.t}
    IN IF at = 0 \/ earlier = {} THEN NaN
       ELSE LET prior == CHOOSE j \in earlier : \A h \in earlier : t.columns[h].t <= t.columns[j].t
            IN FAdd(FDiv(Row(t, row)[at], Row(t, row)[prior]), Num(-1))

\* C12: each growth field is the period-over-period fractional change: its value
\* at a reporting period is the change from the period immediately before it in
\* time, whatever order the period columns are in.
C12_GrowthFromPriorPeriod ==
    pc = "ratios_returned" =>
        \A f \in GrowthFields :
            HasColumn(result.val, f) =>
                \A i \in 1..NRows(result.val) :
                    Column(result.val, f)[i] =
                        ChangeFromPriorPeriod(Get(data_dict, RatioStatement(f)),
                                              CHOOSE r \in RatioRows(f) : TRUE, result.val.index[i])

\* the statement is in the bundle and is not empty
Available(bundle, key) == Has(bundle, key) /\ ~IsEmpty(Get(bundle, key))

\* a ratio field reads a row that holds a text cell: its arithmetic faults
TextInRatioRow(bundle) ==
    \E f \in Range(RatioFields) :
        /\ Has(bundle, RatioStatement(f))
        /\ \A r \in RatioRows(f) : HasRow(Get(bundle, RatioStatement(f)), r)
        /\ \E r \in RatioRows(f) : \E c \in Range(Row(Get(bundle, RatioStatement(f)), r)) : IsText(c)

\* the row labels the claim C13 gives the returned table
PeriodsOf(bundle) ==
    IF Available(bundle, "balance_sheet") THEN Get(bundle, "balance_sheet").columns
    ELSE IF Available(bundle, "income_statement") THEN Get(bundle, "income_statement").columns
    ELSE <<>>

\* C13 as stated: the row labels of the returned table are the period columns of
\* the balance sheet when it is present and not empty, otherwise those of the
\* income statement; when neither is available the result is the empty table,
\* and no error is raised.
C13_PeriodsFromFirstStatement ==
    pc = "ratios_returned" =>
        /\ result.raised = ""
        /\ result.val.index = PeriodsOf(data_dict)
        /\ PeriodsOf(data_dict) = <<>> => result.val = EmptyDataFrame

\* C13, amended: the same, unless a fault occurs during the computation, in which
\* case the returned table is empty.
C13_PeriodsUnlessFault ==
    pc = "ratios_returned" =>
        /\ result.raised = ""
        /\ PeriodsOf(data_dict) = <<>> => result.val = EmptyDataFrame
        /\ IF PeriodsOf(data_dict) # <<>> /\ TextInRatioRow(data_dict)
           THEN result.val = EmptyDataFrame
           ELSE result.val.index = PeriodsOf(data_dict)

\* C13 witness: without a balance sheet the rows are the income statement's
\* periods, fewer than the periods of the cash flow that is also there.
C13_Witness ==
    /\ pc = "ratios_returned"
    /\ ~Has(data_dict, "balance_sheet")
    /\ Has(data_dict, "cash_flow")
    /\ Available(data_dict, "income_statement")
    /\ NRows(result.val) = 1
    /\ result.val.index = Get(data_dict, "income_statement").columns
    /\ NCols(Get(data_dict, "cash_flow")) = MaxPeriods

\* C14: a fault while computing any ratio field does not leave the function and
\* gives the empty table, no rows and no columns, whatever was computed before.
C14_AllOrNothing ==
    (pc = "ratios_returned" /\ TextInRatioRow(data_dict)) =>
        /\ result.raised = ""
        /\ result.val = EmptyDataFrame

\* C14 witness: Debt_Ratio was computable and the Tangible Book Value row, read
\* after it, holds text; the result is empty.
C14_Witness ==
    /\ pc = "ratios_returned"
    /\ HasDebtRows(data_dict)
    /\ ~HasText(Row(Get(data_dict, "balance_sheet"), "Total Debt"))
    /\ ~HasText(Row(Get(data_dict, "balance_sheet"), "Net Debt"))
    /\ HasRow(Get(data_dict, "balance_sheet"), "Tangible Book Value")
    /\ HasText(Row(Get(data_dict, "balance_sheet"), "Tangible Book Value"))
    /\ result = Return(EmptyDataFrame)

IsZero(c) == c.k = "num" /\ c.n = 0

\* the row a growth field reads, as pct_change sees it
GrowthInput(bundle, f) ==
    LET s == Row(Get(bundle, RatioStatement(f)), CHOOSE r \in RatioRows(f) : TRUE)
    IN IF pandas_pad THEN SeriesFfill(s) ELSE s

\* the position in the field's statement of the period of row i of the result
StatementPos(f, i) == Pos(Get(data_dict, RatioStatement(f)).columns, result.val.index[i])

\* the ratios were computed from statements that hold numbers and missing cells
ComputedWithoutText ==
    /\ pc = "ratios_returned"
    /\ PeriodsOf(data_dict) # <<>>
    /\ \A i \in DOMAIN data_dict : \A r \in DOMAIN data_dict[i].val.data :
          ~HasText(data_dict[i].val.data[r])

\* C15: a zero or missing denominator does not raise and does not discard the
\* result, and the affected cell of the ratio table is missing.
C15_ZeroDenominatorMissing ==
    ComputedWithoutText =>
        /\ result.raised = ""
        /\ result.val.index = PeriodsOf(data_dict)
        /\ \A f \in Range(RatioFields) : \A i \in 1..NRows(result.val) :
              (HasColumn(result.val, f) /\ StatementPos(f, i) > 0) =>
                 LET at == StatementPos(f, i)
                     bs == Get(data_dict, "balance_sheet")
                 IN IF f = "Debt_Ratio"
                    THEN (IsZero(Row(bs, "Net Debt")[at]) \/ IsNa(Row(bs, "Net Debt")[at]))
                            => IsNa(Column(result.val, f)[i])
                    ELSE (at > 1 /\ (IsZero(GrowthInput(data_dict, f)[at - 1])
                                      \/ IsNa(GrowthInput(data_dict, f)[at - 1])))
                            => IsNa(Column(result.val, f)[i])

----------------------------------------------------------------------------
(* Input bundles of run_all_validations and process_stock_data.            *)

\* a price history as collected (timezone-aware), its second volume missing
HistGood ==
    DataFrame([i \in 1..MaxRows |-> TSZ(i)], <<Name("Close"), Name("Volume")>>,
              [i \in 1..MaxRows |-> <<Num(2 * i), IF i = 2 THEN NaN ELSE Num(2)>>])

\* the same history without its Volume field
HistNoVolume ==
    DataFrame([i \in 1..MaxRows |-> TSZ(i)], <<Name("Close")>>, [i \in 1..MaxRows |-> <<Num(2 * i)>>])

HistSmall == {HistGood, HistNoVolume}

\* the statement t with timezone-aware period labels
WithTimezone(t) ==
    [t EXCEPT !.columns = [j \in DOMAIN t.columns |->
        IF IsTimestamp(t.columns[j]) THEN TSZ(t.columns[j].t) ELSE t.columns[j]]]

\* the test fixture's balance sheet with a missing cell
BsFixture ==
    DataFrame(<<Name("Net Debt"), Name("Total Debt"), Name("Tangible Book Value")>>,
              PeriodAxis(MaxPeriods),
              <<Rising(MaxPeriods), Rising(MaxPeriods),
                [j \in 1..MaxPeriods |-> IF j = MaxPeriods THEN NaN ELSE Num(2)]>>)

BsProcess ==
    {BsFixture, WithTimezone(BsFixture), EmptyDataFrame,
     DataFrame(<<Name("Total Debt")>>, PeriodAxis(MaxPeriods),
               <<[j \in 1..MaxPeriods |-> IF j = 1 THEN Txt ELSE Num(2)]>>),
     DataFrame(<<Name("Ordinary Shares Number")>>, PeriodAxis(1), << <<Num(2)>> >>)}

IsFixture ==
    DataFrame(<<Name("Normalized EBITDA")>>, PeriodAxis(MaxPeriods), <<Rising(MaxPeriods)>>)

IsProcess == {IsFixture, WithTimezone(IsFixture)}

CfFixture ==
    DataFrame(<<Name("Free Cash Flow")>>, PeriodAxis(MaxPeriods),
              <<[j \in 1..MaxPeriods |-> IF j = 1 THEN NumStr(3) ELSE Num(-4)]>>)

InfoTable == DataFrame(<<Name("0")>>, <<Name("marketCap")>>, << <<NumStr(3)>> >>)

\* every statement of one line item
OneItemStatements == UNION {Tables(<<Name("Total Debt")>>, c, StmtCells) : c \in StmtColumnSets}

\* bundles of whole companies, and bundles of one statement of every shape
ProcessBundles ==
    {h1 \o h2 \o b \o i \o c \o x :
        h1 \in Optional("historical_1y_1d", HistSmall),
        h2 \in Optional("historical_5y_1wk", HistSmall),
        b \in Optional("balance_sheet", BsProcess),
        i \in Optional("income_statement", IsProcess),
        c \in Optional("cash_flow", {CfFixture}),
        x \in Optional("info", {InfoTable})}
    \cup {<<Entry(k, t)>> : k \in Range(StatementKeys), t \in OneItemStatements}

\* now(), shortly after the last timestamp of any table and long after it
NowValues ==
    {(MaxRows + MaxPeriods) * TicksPerDay,
     (MaxRows + MaxPeriods + max_age_days_default + 1) * TicksPerDay}

----------------------------------------------------------------------------
(* SpecProcess: process_stock_data runs on one bundle, step by step.       *)

InitProcess ==
    /\ pc = "process_stock_data"
    /\ data_dict \in ProcessBundles
    /\ pandas_pad \in BOOLEAN
    /\ now \in NowValues
    /\ df = EmptyDataFrame
    /\ statement_type = ""
    /\ processed_data = NoBundle
    /\ result = NoOutcome
    /\ first = NoOutcome
    /\ caught = ""
    /\ max_age = max_age_days_default

ProcessFrame == <<data_dict, first, now, pandas_pad, max_age>>

\* lines 175-178, entered from any step that raised e
ReturnAfter(bundle, e) ==
    /\ caught' = e
    /\ processed_data' = bundle
    /\ result' = on_exception(bundle, e)
    /\ pc' = "psd_returned"

\* lines 139-145
ProcessHistorical ==
    /\ pc = "process_stock_data"
    /\ LET o == historical_loop(data_dict, 1, <<>>, pandas_pad) IN
       IF o.raised # "" THEN ReturnAfter(o.val, o.raised)
       ELSE /\ processed_data' = o.val
            /\ pc' = "psd_balance_sheet"
            /\ UNCHANGED <<result, caught>>
    /\ UNCHANGED <<df, statement_type, ProcessFrame>>

NextStep(key) ==
    CASE key = "balance_sheet" -> "psd_income_statement"
      [] key = "income_statement" -> "psd_cash_flow"
      [] OTHER -> "psd_ratios"

\* lines 148-164: one statement; df is the cleaned table before line 150
ProcessStatement(key) ==
    /\ pc = "psd_" \o key
    /\ IF Has(data_dict, key)
       THEN LET o == clean_financial_statement(Get(data_dict, key), key) IN
            IF o.raised # "" THEN ReturnAfter(processed_data, o.raised) /\ UNCHANGED <<df, statement_type>>
            ELSE /\ df' = o.val
                 /\ statement_type' = key
                 /\ processed_data' = Put(processed_data, key, reorient(o.val))
                 /\ pc' = NextStep(key)
                 /\ UNCHANGED <<result, caught>>
       ELSE /\ pc' = NextStep(key)
            /\ UNCHANGED <<df, statement_type, processed_data, result, caught>>
    /\ UNCHANGED ProcessFrame

\* lines 167-169
ProcessRatios ==
    /\ pc = "psd_ratios"
    /\ LET o == calculate_financial_ratios(processed_data, pandas_pad) IN
       IF o.raised # "" THEN ReturnAfter(processed_data, o.raised)
       ELSE /\ processed_data' = with_ratios(processed_data, o.val)
            /\ pc' = "psd_validate"
            /\ UNCHANGED <<result, caught>>
    /\ UNCHANGED <<df, statement_type, ProcessFrame>>

\* lines 172-178
ProcessValidate ==
    /\ pc = "psd_validate"
    /\ LET o == run_all_validations(processed_data, now) IN
       IF o.raised # "" THEN ReturnAfter(processed_data, o.raised)
       ELSE /\ processed_data' = Put(processed_data, "validation_results", o.val)
            /\ result' = Return(processed_data')
            /\ pc' = "psd_returned"
            /\ UNCHANGED caught
    /\ UNCHANGED <<df, statement_type, ProcessFrame>>

NextProcess ==
    \/ ProcessHistorical
    \/ \E key \in Range(StatementKeys) : ProcessStatement(key)
    \/ ProcessRatios
    \/ ProcessValidate

SpecProcess == InitProcess /\ [][NextProcess]_vars

----------------------------------------------------------------------------
(* Claims about process_stock_data, checked in SpecProcess.                *)

Returned == pc = "psd_returned"

\* the keys of the collected categories: price histories and statements
IsCategoryKey(key) == IsHistoricalKey(key) \/ key \in Range(StatementKeys)

\* what cleaning the table under key gives on its own
CleanedAlone(key) ==
    IF IsHistoricalKey(key) THEN clean_historical_data(Get(data_dict, key), pandas_pad)
    ELSE clean_financial_statement(Get(data_dict, key), key)

\* the position in data_dict of the first table whose cleaning faults, in the
\* order of the steps; 0 when none faults
StepOrder ==
    SelectSeq([i \in DOMAIN data_dict |-> data_dict[i].key], IsHistoricalKey)
    \o SelectSeq(StatementKeys, LAMBDA k : Has(data_dict, k))

FirstFault ==
    IF \E n \in DOMAIN StepOrder : CleanedAlone(StepOrder[n]).raised # ""
    THEN CHOOSE n \in DOMAIN StepOrder :
            /\ CleanedAlone(StepOrder[n]).raised # ""
            /\ \A m \in 1..(n - 1) : CleanedAlone(StepOrder[m]).raised = ""
    ELSE 0

\* C2: a fault while cleaning one category's table does not prevent the other
\* categories from completing: every other category table of the input bundle
\* appears, cleaned, in the returned bundle.
C2_OtherCategoriesComplete ==
    (Returned /\ caught # "") =>
        \A key \in Keys(data_dict) :
            (IsCategoryKey(key) /\ CleanedAlone(key).raised = "") => Has(result.val, key)

\* C3: process_stock_data never raises; when a step faults it returns exactly
\* the entries of the steps completed before the fault, in the order of the
\* steps, and the validation_results key is present if and only if no step
\* faulted.
C3_PartialBundleReturned ==
    Returned =>
        /\ result.raised = ""
        /\ (Has(result.val, "validation_results") <=> FirstFault = 0)
        /\ (FirstFault = 0 <=> caught = "")
        /\ FirstFault # 0 =>
              /\ Len(result.val) = FirstFault - 1
              /\ \A n \in 1..(FirstFault - 1) :
                    /\ result.val[n].key = StepOrder[n]
                    /\ IF IsHistoricalKey(StepOrder[n])
                       THEN result.val[n].val = CleanedAlone(StepOrder[n]).val
                       ELSE result.val[n].val = reorient(CleanedAlone(StepOrder[n]).val)

\* C3 witness: the second price history faulted after the first had been
\* stored; the first is all that is returned, though statements were there.
C3_Witness ==
    /\ Returned
    /\ FirstFault = 2
    /\ caught = "KeyError"
    /\ Keys(result.val) = {"historical_1y_1d"}
    /\ Has(data_dict, "balance_sheet")
    /\ Has(data_dict, "cash_flow")

\* a ratio is computable from the statements of a bundle: the balance sheet or
\* the income statement gives the reporting periods, and some statement has
\* the line items of one of the ratios
RatioComputable(bundle) ==
    /\ \E key \in {"balance_sheet", "income_statement"} :
          Has(bundle, key) /\ NRows(Get(bundle, key)) > 0 /\ NCols(Get(bundle, key)) > 0
    /\ \/ /\ Has(bundle, "balance_sheet")
          /\ \/ {"Total Debt", "Net Debt"} \subseteq NameSet(Get(bundle, "balance_sheet").index)
             \/ "Tangible Book Value" \in NameSet(Get(bundle, "balance_sheet").index)
       \/ /\ Has(bundle, "income_statement")
          /\ "Normalized EBITDA" \in NameSet(Get(bundle, "income_statement").index)
       \/ /\ Has(bundle, "cash_flow")
          /\ "Free Cash Flow" \in NameSet(Get(bundle, "cash_flow").index)

\* C4: a bundle processed without a fault comes back with every category key of
\* the input, with the validation_results key, and with the financial_ratios
\* key whenever its cleaned statements make at least one ratio computable.
C4_FaultFreeOutputKeys ==
    (Returned /\ caught = "") =>
        /\ \A key \in Keys(data_dict) : IsCategoryKey(key) => Has(result.val, key)
        /\ Has(result.val, "validation_results")
        /\ RatioComputable(result.val) => Has(result.val, "financial_ratios")

\* C4 witness: the test bundle, one price history and the three statements,
\* comes back with the ratio table and the validation mapping added.
C4_Witness ==
    /\ Returned
    /\ caught = ""
    /\ Keys(data_dict) = {"historical_1y_1d", "balance_sheet", "income_statement", "cash_flow"}
    /\ Get(data_dict, "balance_sheet") = BsFixture
    /\ Keys(result.val) = Keys(data_dict) \cup {"financial_ratios", "validation_results"}
    /\ NCols(Get(result.val, "financial_ratios")) = Len(RatioFields)

\* C5: a statement whose column labels are all period timestamps leaves
\* clean_financial_statement with the periods on the row axis, and
\* process_stock_data transposes it back, so that in the final bundle it has the
\* orientation of its input: line items as rows, periods as columns.
C5_OrientationPreserved ==
    \A key \in Range(StatementKeys) :
        (/\ statement_type = key
         /\ Has(processed_data, key)
         /\ NCols(Get(data_dict, key)) > 0
         /\ AllTimestampColumns(Get(data_dict, key))) =>
            /\ df.index = Get(data_dict, key).columns
            /\ Get(processed_data, key).index = Get(data_dict, key).index
            /\ Get(processed_data, key).columns = Get(data_dict, key).columns

----------------------------------------------------------------------------
(* SpecValidate: run_all_validations is called on one bundle of tables as  *)
(* collected.                                                              *)

IsRaw == {IsFixture, WithTimezone(IsFixture), EmptyDataFrame,
          DataFrame(<<Name("Normalized EBITDA")>>, PeriodAxis(MaxPeriods),
                    <<[j \in 1..MaxPeriods |-> IF j = 1 THEN Txt ELSE Num(2)]>>)}

ValidationBundles ==
    {h \o b \o i :
        h \in Optional("historical_1y_1d", HistSmall \cup {EmptyDataFrame}),
        b \in Optional("balance_sheet", OneItemStatements \cup BsProcess),
        i \in Optional("income_statement", IsRaw)}

InitValidate ==
    /\ pc = "run_all_validations"
    /\ data_dict \in ValidationBundles
    /\ now \in NowValues
    /\ df = EmptyDataFrame
    /\ statement_type = ""
    /\ pandas_pad = TRUE
    /\ processed_data = NoBundle
    /\ result = NoOutcome
    /\ first = NoOutcome
    /\ caught = ""
    /\ max_age = max_age_days_default

RunAllValidations ==
    /\ pc = "run_all_validations"
    /\ result' = run_all_validations(data_dict, now)
    /\ pc' = "validated"
    /\ UNCHANGED <<df, statement_type, data_dict, processed_data, first, now, pandas_pad, caught, max_age>>

NextValidate == RunAllValidations

SpecValidate == InitValidate /\ [][NextValidate]_vars

\* the detailed checks of the table at position i of the bundle fault
Faults(i) ==
    /\ ~IsEmpty(data_dict[i].val)
    /\ detailed_validation(data_dict[i].key, data_dict[i].val, now).raised # ""

\* C1: run_all_validations never raises: the entry of a table whose validation
\* faults is a failing result (status false) whose issues carry the error text,
\* every other table gets the result it gets when validated alone, and the
\* returned mapping has exactly one entry per bundle key.
C1_ValidateAllNeverRaises ==
    pc = "validated" =>
        /\ result.raised = ""
        /\ Len(result.val) = Len(data_dict)
        /\ \A i \in DOMAIN data_dict :
              /\ result.val[i].key = data_dict[i].key
              /\ IF Faults(i)
                 THEN result.val[i].val =
                        [status |-> FALSE,
                         issues |-> [error |-> detailed_validation(data_dict[i].key,
                                                   data_dict[i].val, now).raised]]
                 ELSE <<result.val[i]>> = run_all_validations(<<data_dict[i]>>, now).val

\* C1 witness: the second table of a bundle of three faulted with a TypeError,
\* and the tables before and after it got their checks and their freshness.
C1_Witness ==
    /\ pc = "validated"
    /\ Len(data_dict) = 3
    /\ Faults(2)
    /\ result.raised = ""
    /\ result.val[2].val.issues = [error |-> "TypeError"]
    /\ "freshness" \in DOMAIN result.val[1].val
    /\ "freshness" \in DOMAIN result.val[3].val

\* C18 as stated: the result of an empty table has status false and issues
\* exactly {"error": "Empty data"}, and no detailed check is run on it.
C18_EmptyData ==
    (pc = "validated" /\ result.raised = "") =>
        \A i \in DOMAIN data_dict :
            IsEmpty(data_dict[i].val) =>
                result.val[i].val = [status |-> FALSE, issues |-> [error |-> "Empty data"]]

\* C18, amended: the result of an empty table has status false and issues
\* exactly {"error": "Empty DataFrame"}; it has no other issue and no freshness
\* entry, so no detailed check was run on it.
C18_EmptyDataFrame ==
    (pc = "validated" /\ result.raised = "") =>
        \A i \in DOMAIN data_dict :
            IsEmpty(data_dict[i].val) =>
                result.val[i].val = [status |-> FALSE, issues |-> [error |-> "Empty DataFrame"]]

\* C18 witness: an empty price history and an empty balance sheet, one without
\* any label and one with a line item and no period, were both short-circuited.
C18_Witness ==
    /\ pc = "validated"
    /\ Has(data_dict, "historical_1y_1d") /\ Get(data_dict, "historical_1y_1d") = EmptyDataFrame
    /\ Has(data_dict, "balance_sheet")
    /\ NRows(Get(data_dict, "balance_sheet")) = 1 /\ NCols(Get(data_dict, "balance_sheet")) = 0
    /\ \A i \in 1..2 : DOMAIN result.val[i].val = {"status", "issues"}
    /\ \A i \in 1..2 : result.val[i].val.issues = [error |-> "Empty DataFrame"]

----------------------------------------------------------------------------
(* SpecFresh: validate_data_freshness is called on one table with one      *)
(* threshold at one time.                                                  *)

MaxAgeDays == 2

\* price histories: a row axis of timestamps, timezone-aware as collected or
\* timezone-naive, in either order
FreshHistories ==
    {DataFrame(index, <<Name("Close")>>, [i \in DOMAIN index |-> <<Num(2)>>]) :
        index \in UNION {{[i \in 1..n |-> TSZ(i)], [i \in 1..n |-> TS(i)],
                          [i \in 1..n |-> TSZ(n + 1 - i)]} : n \in 1..MaxRows}}

\* statements: every period axis under one line item
FreshStatements ==
    {DataFrame(<<Name("Total Debt")>>, c, <<[j \in DOMAIN c |-> Num(2)]>>) :
        c \in UNION {PeriodAxes(n) : n \in 1..MaxPeriods}}

FreshInputs == FreshHistories \cup FreshStatements \cup {EmptyDataFrame}

\* now(): from the first timestamp to MaxAgeDays + 2 days after the last one
FreshClock == 1..((MaxAgeDays + 2) * TicksPerDay + MaxRows + MaxPeriods)

InitFresh ==
    /\ pc = "validate_data_freshness"
    /\ df \in FreshInputs
    /\ max_age \in 0..MaxAgeDays
    /\ now \in FreshClock
    /\ statement_type = ""
    /\ pandas_pad = TRUE
    /\ data_dict = NoBundle
    /\ processed_data = NoBundle
    /\ result = NoOutcome
    /\ first = NoOutcome
    /\ caught = ""

CheckFreshness ==
    /\ pc = "validate_data_freshness"
    /\ result' = Return(validate_data_freshness(df, max_age, now))
    /\ pc' = "freshness_checked"
    /\ UNCHANGED <<df, statement_type, data_dict, processed_data, first, now, pandas_pad, caught, max_age>>

NextFresh == CheckFreshness

SpecFresh == InitFresh /\ [][NextFresh]_vars

\* the table has a timestamp axis: its row labels or its column labels are all
\* timestamps
TimestampAxis(t) ==
    IF NRows(t) > 0 /\ \A i \in DOMAIN t.index : IsTimestamp(t.index[i]) THEN t.index
    ELSE IF NCols(t) > 0 /\ \A j \in DOMAIN t.columns : IsTimestamp(t.columns[j]) THEN t.columns
    ELSE <<>>

\* the age in whole days of the latest timestamp of the axis
AgeInDays(axis) ==
    LET latest == CHOOSE i \in DOMAIN axis : \A h \in DOMAIN axis : axis[h].t <= axis[i].t
    IN (now - axis[latest].t) \div TicksPerDay

\* C16: a non-empty table with a timestamp axis is reported fresh when the age in
\* whole days of its latest timestamp is at most max_age_days, and stale when
\* it is max_age_days + 1 or more, with a message that states that number of
\* days.
C16_FreshnessBoundary ==
    (pc = "freshness_checked" /\ ~IsEmpty(df) /\ TimestampAxis(df) # <<>>) =>
        LET age == AgeInDays(TimestampAxis(df)) IN
        /\ age <= max_age => result.val.status
        /\ age >= max_age + 1 =>
              /\ ~result.val.status
              /\ result.val.message.age = age
              /\ result.val.message.text = "Data is {age} days old (max allowed: {max_age_days})"

\* the table with its timestamps made timezone-naive
WithoutTimezone(t) ==
    [t EXCEPT !.index = [i \in DOMAIN t.index |-> [t.index[i] EXCEPT !.tz = FALSE]],
              !.columns = [j \in DOMAIN t.columns |-> [t.columns[j] EXCEPT !.tz = FALSE]]]

\* C17: the latest timestamp is taken from the row axis of a time-series table
\* and from the column axis of a statement, and any timezone is stripped before
\* the comparison: a table with timezone-qualified timestamps gets the status
\* and the message of the same table with timezone-naive timestamps.
C17_TimezoneStripped ==
    (pc = "freshness_checked" /\ ~IsEmpty(df) /\ TimestampAxis(df) # <<>>) =>
        /\ result.val = validate_data_freshness(WithoutTimezone(df), max_age, now)
        /\ result.val.status <=> AgeInDays(TimestampAxis(df)) <= max_age

----------------------------------------------------------------------------
(* What a call does to the caller's tables.  The parameter df names the    *)
(* caller's table until df is rebound or copied; an assignment df[col] =   *)
(* ... writes into the table df names at that moment.                      *)

\* on entry: df is the caller's table
Bind(t) == [caller |-> t, local |-> t, shared |-> TRUE]

\* the copy left out: df goes on naming the caller's table
CopySkipped(st) == st

\* df = df.copy() (lines 23, 58, 80)
Copy(st) == [st EXCEPT !.shared = FALSE]

\* df = <a new table>: ffill, fillna, transpose, apply, boolean selection
Rebind(st, v) == [caller |-> st.caller, local |-> v, shared |-> FALSE]

\* df[col] = ...: written into the table df names
SetInPlace(st, v) ==
    [caller |-> IF st.shared THEN v ELSE st.caller, local |-> v, shared |-> st.shared]

\* clean_historical_data, statement by statement (lines 20-46)
clean_historical_data_effect(t, pad) ==
    IF IsEmpty(t) THEN Bind(t)
    ELSE LET s1 == Copy(Bind(t)) IN
         IF ~HasColumn(t, "Volume") THEN s1
         ELSE LET s2 == SetInPlace(s1, SetColumn(s1.local, "Volume",
                            [i \in 1..NRows(t) |-> FillZero(Column(s1.local, "Volume")[i])]))
                  s3 == Rebind(s2, Ffill(s2.local))
                  s4 == Rebind(s3, FilterRows(s3.local, NotDuplicatedFirst(s3.local.index)))
                  o == add_indicators(s4.local, pad)
              IN IF o.raised # "" THEN s4 ELSE SetInPlace(s4, o.val)

\* clean_financial_statement (lines 55-73): after the copy every statement
\* rebinds df
clean_financial_statement_effect(t, type) ==
    IF IsEmpty(t) THEN Bind(t)
    ELSE Rebind(Copy(Bind(t)), clean_financial_statement(t, type).val)

\* clean_info_data (lines 77-92): the columns are converted in place
clean_info_data_effect(t) ==
    IF IsEmpty(t) THEN Bind(t)
    ELSE SetInPlace(Copy(Bind(t)), clean_info_data(t).val)

\* the validators and calculate_financial_ratios only read their tables
read_only_effect(t) == Bind(t)

\* process_stock_data: data_dict is read, never assigned (processed_data is a new
\* dict, line 139); its tables are passed to the cleaning functions until one
\* raises
process_stock_data_effect(bundle, pad) ==
    LET raises(h) == IsHistoricalKey(bundle[h].key)
                        /\ clean_historical_data(bundle[h].val, pad).raised # ""
    IN [i \in DOMAIN bundle |->
          Entry(bundle[i].key,
            IF IsHistoricalKey(bundle[i].key) /\ ~\E h \in 1..(i - 1) : raises(h)
            THEN clean_historical_data_effect(bundle[i].val, pad).caller
            ELSE IF bundle[i].key \in Range(StatementKeys) /\ ~\E h \in DOMAIN bundle : raises(h)
            THEN clean_financial_statement_effect(bundle[i].val, bundle[i].key).caller
            ELSE bundle[i].val)]

\* lines 148-164 for one statement key, given the entries stored so far
statement_step(bundle, acc, key) ==
    IF Has(bundle, key)
    THEN Put(acc, key, reorient(clean_financial_statement(Get(bundle, key), key).val))
    ELSE acc

\* lines 148-164: the statements from position i of StatementKeys on
RECURSIVE statement_loop(_, _, _)
statement_loop(bundle, acc, i) ==
    IF i > Len(StatementKeys) THEN acc
    ELSE statement_loop(bundle, statement_step(bundle, acc, StatementKeys[i]), i + 1)

\* lines 172-178, given the outcome v of run_all_validations
after_validation(acc, v) ==
    IF v.raised # "" THEN on_exception(acc, v.raised)
    ELSE Return(Put(acc, "validation_results", v.val))

\* lines 168-178, given the outcome r of calculate_financial_ratios
after_ratios(acc, r, clock) ==
    IF r.raised # "" THEN on_exception(acc, r.raised)
    ELSE after_validation(with_ratios(acc, r.val), run_all_validations(with_ratios(acc, r.val), clock))

\* lines 148-178, given the outcome h of the loop of lines 143-145
after_historical(bundle, h, pad, clock) ==
    IF h.raised # "" THEN on_exception(h.val, h.raised)
    ELSE after_ratios(statement_loop(bundle, h.val, 1),
                      calculate_financial_ratios(statement_loop(bundle, h.val, 1), pad), clock)

\* process_stock_data as one call (lines 139-178)
process_stock_data(bundle, pad, clock) ==
    after_historical(bundle, historical_loop(bundle, 1, <<>>, pad), pad, clock)

----------------------------------------------------------------------------
(* SpecFrame: one function is called once; df and data_dict are the        *)
(* caller's table and bundle, before and after the call.                   *)

TableFunctions ==
    {"validate_historical_data", "validate_fundamental_data", "validate_data_freshness",
     "clean_historical_data", "clean_financial_statement", "clean_info_data"}

BundleFunctions == {"calculate_financial_ratios", "process_stock_data"}

InitFrame ==
    /\ pc \in TableFunctions \cup BundleFunctions
    /\ df \in CASE pc \in {"validate_historical_data", "clean_historical_data"} -> HistInputs
                [] pc \in {"validate_fundamental_data", "clean_financial_statement"} -> StmtInputs
                [] pc = "validate_data_freshness" -> FreshInputs
                [] pc = "clean_info_data" -> InfoInputs
                [] OTHER -> {EmptyDataFrame}
    /\ data_dict \in CASE pc = "calculate_financial_ratios" -> SharedAxisBundles
                       [] pc = "process_stock_data" -> ProcessBundles
                       [] OTHER -> {NoBundle}
    /\ statement_type \in IF pc \in {"validate_fundamental_data", "clean_financial_statement"}
                          THEN StatementTypes ELSE {""}
    /\ pandas_pad \in IF pc \in {"clean_historical_data", "process_stock_data"}
                      THEN BOOLEAN ELSE {TRUE}
    /\ now \in IF pc \in {"validate_data_freshness", "process_stock_data"} THEN NowValues ELSE {0}
    /\ processed_data = NoBundle
    /\ result = NoOutcome
    /\ first = NoOutcome
    /\ caught = ""
    /\ max_age = max_age_days_default

\* the call of a function on the caller's table df: its result, and the
\* caller's table after it
CallOnTable(name, outcome, effect) ==
    /\ result' = outcome
    /\ df' = effect.caller
    /\ pc' = name \o "_returned"
    /\ UNCHANGED <<statement_type, data_dict, processed_data, first, now, pandas_pad, caught, max_age>>

\* the call of a function on the caller's bundle data_dict
CallOnBundle(name, outcome, after) ==
    /\ result' = outcome
    /\ data_dict' = after
    /\ pc' = name \o "_returned"
    /\ UNCHANGED <<df, statement_type, processed_data, first, now, pandas_pad, caught, max_age>>

FrameValidateHistorical ==
    /\ pc = "validate_historical_data"
    /\ CallOnTable("validate_historical_data", Return(validate_historical_data(df)),
                      read_only_effect(df))

FrameValidateFundamental ==
    /\ pc = "validate_fundamental_data"
    /\ CallOnTable("validate_fundamental_data",
                      Return(validate_fundamental_data(statement_type, df)), read_only_effect(df))

FrameValidateFreshness ==
    /\ pc = "validate_data_freshness"
    /\ CallOnTable("validate_data_freshness", Return(validate_data_freshness(df, max_age, now)),
                      read_only_effect(df))

FrameCleanHistorical ==
    /\ pc = "clean_historical_data"
    /\ CallOnTable("clean_historical_data", clean_historical_data(df, pandas_pad),
                      clean_historical_data_effect(df, pandas_pad))

FrameCleanStatement ==
    /\ pc = "clean_financial_statement"
    /\ CallOnTable("clean_financial_statement", clean_financial_statement(df, statement_type),
                      clean_financial_statement_effect(df, statement_type))

FrameCleanInfo ==
    /\ pc = "clean_info_data"
    /\ CallOnTable("clean_info_data", clean_info_data(df), clean_info_data_effect(df))

FrameRatios ==
    /\ pc = "calculate_financial_ratios"
    /\ CallOnBundle("calculate_financial_ratios", calculate_financial_ratios(data_dict, pandas_pad),
                       [i \in DOMAIN data_dict |->
                          Entry(data_dict[i].key, read_only_effect(data_dict[i].val).caller)])

FrameProcess ==
    /\ pc = "process_stock_data"
    /\ CallOnBundle("process_stock_data", process_stock_data(data_dict, pandas_pad, now),
                       process_stock_data_effect(data_dict, pandas_pad))

NextFrame ==
    \/ FrameValidateHistorical
    \/ FrameValidateFundamental
    \/ FrameValidateFreshness
    \/ FrameCleanHistorical
    \/ FrameCleanStatement
    \/ FrameCleanInfo
    \/ FrameRatios
    \/ FrameProcess

SpecFrame == InitFrame /\ [][NextFrame]_vars

\* the table a cleaning call works on is the table it returns
LocalIsReturned ==
    /\ pc = "clean_historical_data" =>
          LET o == clean_historical_data(df, pandas_pad)
          IN o.raised = "" => clean_historical_data_effect(df, pandas_pad).local = o.val
    /\ pc = "clean_financial_statement" =>
          clean_financial_statement_effect(df, statement_type).local
              = clean_financial_statement(df, statement_type).val
    /\ pc = "clean_info_data" => clean_info_data_effect(df).local = clean_info_data(df).val

\* C19: after any call of validate_historical_data, validate_fundamental_data,
\* validate_data_freshness, clean_historical_data, clean_financial_statement,
\* clean_info_data, calculate_financial_ratios or process_stock_data, the
\* caller's table (labels and cells) and the caller's bundle (its keys and the
\* tables they map to) are the same as before the call.
C19_InputsNotMutated == [][df' = df /\ data_dict' = data_dict]_vars

\* clean_historical_data has returned a table with the missing Volume of its
\* input filled, and the caller's table still has the missing Volume
C19_Witness ==
    /\ pc = "clean_historical_data_returned"
    /\ result.raised = ""
    /\ HasColumn(df, "Volume")
    /\ \E i \in 1..NRows(df) : IsNa(Column(df, "Volume")[i])
    /\ \A i \in 1..NRows(result.val) : ~IsNa(Column(result.val, "Volume")[i])

----------------------------------------------------------------------------
(* SpecHistorical: validate_historical_data is called on a table of daily  *)
(* bars, then run_all_validations on the bundle that holds it.             *)

\* the columns of a collected history (sample_historical_data)
OhlcvColumns ==
    <<Name("Open"), Name("High"), Name("Low"), Name("Close"), Name("Volume"),
      Name("Dividends"), Name("Stock Splits")>>

Bar(open, high, low, close, volume, dividends) ==
    <<open, high, low, close, volume, dividends, Num(0)>>

\* a bar within every rule, bars at the limits of the ranges, and bars that
\* break one rule each
OhlcvRows ==
    {Bar(Num(2), Num(4), Num(1), Num(3), Num(5), Num(0)),
     Bar(Num(3), Num(3), Num(3), Num(3), Num(5), Num(0)),
     Bar(Num(PriceMin), Num(PriceMax), Num(PriceMin), Num(PriceMax), Num(VolumeMax), Num(0)),
     Bar(Num(2), Num(4), Num(1), Num(3), Num(VolumeMin), Txt),
     Bar(Num(2), Num(PriceMax + 1), Num(1), Num(3), Num(5), Num(0)),
     Bar(Num(2), Num(4), Num(PriceMin - 1), Num(3), Num(5), Num(0)),
     Bar(Num(2), PosInf, Num(1), Num(3), Num(5), Num(0)),
     Bar(Num(2), Num(4), Num(1), Num(3), Num(VolumeMin - 1), Num(0)),
     Bar(Num(2), Num(4), Num(1), Num(3), Num(VolumeMax + 1), Num(0)),
     Bar(Num(2), Num(4), Num(1), NaN, Num(5), Num(0)),
     Bar(Num(2), Num(4), Num(1), Num(3), NaN, Num(0)),
     Bar(Num(2), Num(4), Num(1), Num(3), Num(5), NaN),
     Bar(NaN, Num(1), Num(2), NaN, Num(5), Num(0)),
     Bar(Num(5), Num(4), Num(1), Num(3), Num(5), Num(0)),
     Bar(Num(2), Num(4), Num(1), Num(5), Num(5), Num(0)),
     Bar(Num(0), Num(4), Num(1), Num(3), Num(5), Num(0)),
     Bar(Num(2), Num(4), Num(1), Num(0), Num(5), Num(0)),
     Bar(Num(2), Num(4), Num(1), Txt, Num(5), Num(0))}

\* row axes of n labels: timestamps, timezone-aware timestamps, and a plain
\* index
OhlcvIndexes(n) ==
    {[i \in 1..n |-> TS(i)], [i \in 1..n |-> TSZ(i)], [i \in 1..n |-> Name("row")]}

\* the table t without its column j
DropColumn(t, j) ==
    LET keep(row) == [h \in 1..(Len(row) - 1) |-> IF h < j THEN row[h] ELSE row[h + 1]]
    IN DataFrame(t.index, keep(t.columns), [i \in 1..NRows(t) |-> keep(t.data[i])])

\* tables of up to MaxRows bars, all but one of them the first bar of the fixture
GoodBar == Bar(Num(2), Num(4), Num(1), Num(3), Num(5), Num(0))

OhlcvFull ==
    UNION {{DataFrame(index, OhlcvColumns, [i \in 1..n |-> IF i = k THEN bar ELSE GoodBar]) :
                index \in OhlcvIndexes(n), k \in 1..n, bar \in OhlcvRows} :
           n \in 1..MaxRows}

\* full tables, tables that lack one field, and tables as clean_historical_data
\* returns them, with the indicator columns
OhlcvInputs ==
    OhlcvFull
    \cup {DropColumn(t, j) : t \in {u \in OhlcvFull : NRows(u) = 1}, j \in DOMAIN OhlcvColumns}
    \cup {clean_historical_data(t, TRUE).val :
            t \in {u \in OhlcvFull : clean_historical_data(u, TRUE).raised = ""}}

InitHistorical ==
    /\ pc = "validate_historical_data"
    /\ df \in OhlcvInputs
    /\ now \in NowValues
    /\ data_dict = <<Entry("historical_1y_1d", df)>>
    /\ statement_type = ""
    /\ pandas_pad = TRUE
    /\ processed_data = NoBundle
    /\ result = NoOutcome
    /\ first = NoOutcome
    /\ caught = ""
    /\ max_age = max_age_days_default

\* validate_historical_data(df)
ValidateHistorical ==
    /\ pc = "validate_historical_data"
    /\ result' = validate_historical_data(df)
    /\ pc' = "historical_validated"
    /\ UNCHANGED <<df, statement_type, data_dict, processed_data, first, now, pandas_pad, caught, max_age>>

\* run_all_validations on the bundle that holds df; first keeps the outcome of
\* validate_historical_data
ValidateAll ==
    /\ pc = "historical_validated"
    /\ first' = result
    /\ result' = run_all_validations(data_dict, now)
    /\ pc' = "all_validated"
    /\ UNCHANGED <<df, statement_type, data_dict, processed_data, now, pandas_pad, caught, max_age>>

NextHistorical == ValidateHistorical \/ ValidateAll

SpecHistorical == InitHistorical /\ [][NextHistorical]_vars

\* a number within [lo, hi]
Within(v, lo, hi) == v.k = "num" /\ lo * v.d <= v.n /\ v.n <= hi * v.d

\* the number a below the number b
Below(a, b) == a.n * b.d < b.n * a.d

\* the rules of validate_historical_data, as the table meets or breaks them
MeetsHistoricalRules(t) ==
    /\ \A i \in DOMAIN t.index : t.index[i].kind = "ts"
    /\ \A j \in DOMAIN OhlcvColumns : \E h \in DOMAIN t.columns : t.columns[h] = OhlcvColumns[j]
    /\ \A i \in 1..NRows(t), j \in 1..NCols(t) : t.data[i][j].k # "nan"
    /\ \A i \in 1..NRows(t) :
          LET v(f) == Column(t, f)[i] IN
          /\ \A f \in {"Open", "High", "Low", "Close"} : Within(v(f), PriceMin, PriceMax)
          /\ Within(v("Volume"), VolumeMin, VolumeMax)
          /\ ~Below(v("High"), v("Low"))
          /\ ~Below(v("High"), v("Open"))
          /\ ~Below(v("High"), v("Close"))
          /\ ~Below(v("Open"), v("Low"))
          /\ ~Below(v("Close"), v("Low"))

\* the entry of run_all_validations for the one table of the bundle
HistoricalEntry == result.val[1].val

\* C20: validate_historical_data on a non-empty table returns status pass
\* exactly when its issues mapping is empty, that is when the row axis is a time
\* axis, the seven required fields are present, no cell is null, every
\* open/high/low/close value lies in [0, 1e6], every volume in [0, 1e12], and no
\* row has high < low, high < open, high < close, low > open or low > close;
\* the freshness sub-result of run_all_validations does not change the status.
C20_PassIffNoIssues ==
    /\ (pc = "historical_validated" /\ ~IsEmpty(df) /\ result.raised = "") =>
          /\ result.val.status <=> (DOMAIN result.val.issues = {})
          /\ result.val.status <=> MeetsHistoricalRules(df)
    /\ (pc = "all_validated" /\ ~IsEmpty(df) /\ first.raised = "") =>
          /\ result.raised = ""
          /\ HistoricalEntry.status = first.val.status
          /\ HistoricalEntry.issues = first.val.issues

\* a table at the limits of the ranges that meets every rule is stale and still
\* passes
C20_Witness ==
    /\ pc = "all_validated"
    /\ MeetsHistoricalRules(df)
    /\ \E i \in 1..NRows(df) :
          Column(df, "High")[i] = Num(PriceMax) /\ Column(df, "Volume")[i] = Num(VolumeMax)
    /\ ~HistoricalEntry.freshness.status
    /\ HistoricalEntry.status

----------------------------------------------------------------------------
(* SpecDedupe: clean_historical_data is called on a time series with       *)
(* enough rows for a duplicate timestamp to sit between two retained rows. *)

\* most rows of such a series: a first occurrence, its duplicate, a later row
DedupeRows == MaxRows + 1

\* time-ordered row axes of at most DedupeRows rows over MaxRows timestamps,
\* duplicates included
DedupeIndexes ==
    UNION {{[i \in 1..n |-> TS(q[i])] :
                q \in {q \in [1..n -> 1..MaxRows] : \A i \in 1..(n - 1) : q[i] <= q[i + 1]}} :
           n \in 1..DedupeRows}

VolumeCells == {NaN, Num(2)}

DedupeInputs ==
    UNION {{DataFrame(index, <<Name("Close"), Name("Volume")>>,
                      [i \in 1..Len(index) |-> <<close[i], volume[i]>>]) :
                close \in [1..Len(index) -> HistCells],
                volume \in {[i \in 1..Len(index) |-> v] : v \in VolumeCells}} :
           index \in DedupeIndexes}

InitDedupe ==
    /\ pc = "clean_historical_data"
    /\ df \in DedupeInputs
    /\ pandas_pad \in BOOLEAN
    /\ statement_type = ""
    /\ data_dict = NoBundle
    /\ processed_data = NoBundle
    /\ result = NoOutcome
    /\ first = NoOutcome
    /\ now = 0
    /\ caught = ""
    /\ max_age = max_age_days_default

NextDedupe == CleanHistorical

SpecDedupe == InitDedupe /\ [][NextDedupe]_vars

\* the rows of the input that are the first occurrence of their timestamp
RetainedRows(t) == {i \in 1..NRows(t) : \A h \in 1..(i - 1) : t.index[h] # t.index[i]}

\* the position in the output of the retained input row i
OutputRow(t, i) == Cardinality({h \in RetainedRows(t) : h <= i})

\* the rows before row i, among the rows of from, whose cell of column j is known
KnownBefore(t, from, i, j) == {h \in from : h < i /\ ~IsNa(t.data[h][j])}

Latest(rows) == CHOOSE m \in rows : \A h \in rows : h <= m

HistoricalCleaned == pc = "historical_cleaned" /\ ~IsEmpty(df) /\ result.raised = ""

\* the output has one row per timestamp of the input, in order, and a cell that
\* was known in the input is unchanged
FirstOccurrenceKept ==
    /\ NRows(result.val) = Cardinality(RetainedRows(df))
    /\ \A i \in RetainedRows(df) :
          /\ result.val.index[OutputRow(df, i)] = df.index[i]
          /\ \A j \in 1..NCols(df) :
                ~IsNa(df.data[i][j]) => result.val.data[OutputRow(df, i)][j] = df.data[i][j]

\* the missing non-volume cells of retained rows hold the latest known value
\* before them among the rows of from(t), and stay missing if no row of the
\* input before them has a known value
FilledFrom(rows) ==
    \A i \in RetainedRows(df), j \in 1..NCols(df) :
        (df.columns[j] # Name("Volume") /\ IsNa(df.data[i][j])) =>
            LET cell == result.val.data[OutputRow(df, i)][j] IN
            /\ KnownBefore(df, rows, i, j) # {} =>
                  cell = df.data[Latest(KnownBefore(df, rows, i, j))][j]
            /\ KnownBefore(df, 1..NRows(df), i, j) = {} => IsNa(cell)

\* C21 as stated: in the output of clean_historical_data each timestamp appears
\* once and its row is the first occurrence of that timestamp in the input;
\* every non-volume cell that was missing in the input holds the last known
\* value found at an earlier row that the output retains, and a missing cell
\* with no earlier known value stays missing.
C21_FilledFromRetainedRows ==
    HistoricalCleaned => FirstOccurrenceKept /\ FilledFrom(RetainedRows(df))

\* C21, amended: in the output of clean_historical_data each timestamp appears
\* once and its row is the first occurrence of that timestamp in the input;
\* every non-volume cell that was missing in the input holds the last known
\* value found at an earlier row of the input, retained by the output or not,
\* and a missing cell with no earlier known value stays missing.
C21_FilledFromEarlierRows ==
    HistoricalCleaned => FirstOccurrenceKept /\ FilledFrom(1..NRows(df))

\* a missing Close after a discarded duplicate row holds the duplicate's Close,
\* which differs from the Close of the retained row of that timestamp
C21_Witness ==
    /\ HistoricalCleaned
    /\ \E i \in RetainedRows(df) :
          /\ i > 2
          /\ (i - 1) \notin RetainedRows(df)
          /\ IsNa(Column(df, "Close")[i])
          /\ Column(df, "Close")[i - 1] = Num(2)
          /\ Column(df, "Close")[i - 2] = Num(0)
          /\ Column(result.val, "Close")[OutputRow(df, i)] = Num(2)

----------------------------------------------------------------------------
(* The line items of a cleaned balance sheet, checked under SpecClean.     *)

\* the cell of the cleaned statement for line item i and period p of the input:
\* the output has the periods as rows when the input was transposed
CleanedCell(i, p) ==
    IF AllTimestampColumns(df) THEN result.val.data[p][i] ELSE result.val.data[i][p]

\* C22: clean_financial_statement with balance_sheet never fills a missing cell
\* of one line item with a value of a different line item: every cell it fills
\* takes a value of the same line item from another period, whether or not the
\* table was transposed.
C22_FilledFromSameLineItem ==
    (pc = "statement_cleaned" /\ statement_type = "balance_sheet" /\ ~IsEmpty(df)
        /\ result.raised = "") =>
        \A i \in 1..NRows(df), p \in 1..NCols(df) :
            (~Known(df.data[i][p]) /\ ~IsNa(CleanedCell(i, p))) =>
                \E q \in (1..NCols(df)) \ {p} :
                    Known(df.data[i][q]) /\ CleanedCell(i, p) = Value(df.data[i][q])

----------------------------------------------------------------------------
(* FinancialFeatureGenerator: the features of one company from a wide      *)
(* table, line items as rows, fiscal years as columns, and a last column   *)
(* Company.                                                                *)

\* MARKET_CAP_THRESHOLDS, counted in 1e9 (TLC's integers have 32 bits); the
\* code only compares Total Capitalization with them
MarketCapHigh == 500
MarketCapMedium == 50

TicksPerYear == 365 * TicksPerDay

\* str(col.year): the year of a timestamp, as text
YearText(col) == Name(ToString(col.t \div TicksPerYear))

\* lines 15-16: the labels of all columns but the last as year texts
cleaned_cols(t) ==
    [j \in 1..NCols(t) |-> IF j < NCols(t) THEN YearText(t.columns[j]) ELSE t.columns[j]]

\* preprocess_data: df.columns[-1] of a table without columns raises
\* IndexError, col.year of a label that is no timestamp AttributeError
preprocess_data(t) ==
    IF \E j \in 1..(NCols(t) - 1) : ~IsTimestamp(t.columns[j]) THEN Raise("AttributeError")
    ELSE IF NCols(t) = 0 THEN Raise("IndexError")
    ELSE Return([t EXCEPT !.columns = cleaned_cols(t)])

\* line 17 assigns the labels to the table the caller passed
preprocess_data_effect(t) ==
    IF preprocess_data(t).raised # "" THEN Bind(t)
    ELSE SetInPlace(Bind(t), preprocess_data(t).val)

\* df.loc[item, year]
Loc(t, item, year) == t.data[Pos(t.index, Name(item))][Pos(t.columns, year)]

FSub(a, b) == FAdd(a, FMul(Num(-1), b))

\* lines 46-82
calculate_basic_ratios(t, year) ==
    [k \in {"net_profit_margin", "cost_revenue_ratio", "current_ratio", "quick_ratio",
            "cash_ratio", "asset_turnover", "debt_to_equity"} |->
        CASE k = "net_profit_margin" ->
                FDiv(Loc(t, "Net Income", year), Loc(t, "Total Revenue", year))
          [] k = "cost_revenue_ratio" ->
                FDiv(Loc(t, "Cost Of Revenue", year), Loc(t, "Total Revenue", year))
          [] k = "current_ratio" ->
                FDiv(Loc(t, "Current Assets", year), Loc(t, "Current Liabilities", year))
          [] k = "quick_ratio" ->
                FDiv(Loc(t, "Current Assets", year), Loc(t, "Current Liabilities", year))
          [] k = "cash_ratio" ->
                FDiv(Loc(t, "End Cash Position", year), Loc(t, "Current Liabilities", year))
          [] k = "asset_turnover" ->
                FDiv(Loc(t, "Total Revenue", year), Loc(t, "Total Assets", year))
          [] OTHER ->
                FDiv(Loc(t, "Total Debt", year),
                     Loc(t, "Total Equity Gross Minority Interest", year))]

\* lines 84-104
calculate_valuation_metrics(t, year) ==
    [k \in {"roc", "owner_earnings", "fcf_yield"} |->
        CASE k = "roc" ->
                FDiv(Loc(t, "Operating Income", year),
                     FAdd(Loc(t, "Working Capital", year), Loc(t, "Net Tangible Assets", year)))
          [] k = "owner_earnings" ->
                FAdd(Loc(t, "Operating Cash Flow", year), Loc(t, "Capital Expenditure", year))
          [] OTHER ->
                FDiv(Loc(t, "Free Cash Flow", year), Loc(t, "Total Capitalization", year))]

\* lines 106-124
calculate_altman_z_score(t, year) ==
    [k \in {"altman_z_score"} |->
        FAdd(FAdd(FAdd(FAdd(
            FMul(Rat(12, 10), FDiv(Loc(t, "Working Capital", year), Loc(t, "Total Assets", year))),
            FMul(Rat(14, 10), FDiv(Loc(t, "Retained Earnings", year), Loc(t, "Total Assets", year)))),
            FMul(Rat(33, 10), FDiv(Loc(t, "Operating Income", year), Loc(t, "Total Assets", year)))),
            FMul(Rat(6, 10), FDiv(Loc(t, "Total Equity Gross Minority Interest", year),
                                  Loc(t, "Total Debt", year)))),
            FMul(Rat(999, 1000), FDiv(Loc(t, "Total Revenue", year), Loc(t, "Total Assets", year))))]

\* np.sqrt: the root (k = "sqrt") of a number, NaN for a negative one
Sqrt(v) ==
    IF v.k = "num" THEN (IF v.n < 0 THEN NaN ELSE [v EXCEPT !.k = "sqrt"])
    ELSE IF v.k = "inf" /\ v.n < 0 THEN NaN
    ELSE v

\* lines 126-141
calculate_graham_metrics(t, year) ==
    [k \in {"graham_nnwc", "graham_number"} |->
        IF k = "graham_nnwc"
        THEN FSub(Loc(t, "Current Assets", year), Loc(t, "Total Debt", year))
        ELSE Sqrt(FMul(FMul(Rat(225, 10), Loc(t, "Diluted EPS", year)),
                       Loc(t, "Net Tangible Assets", year)))]

\* the line items the metric functions read
FeatureRows ==
    {"Net Income", "Total Revenue", "Cost Of Revenue", "Current Assets", "Current Liabilities",
     "End Cash Position", "Total Assets", "Total Debt", "Total Equity Gross Minority Interest",
     "Operating Income", "Working Capital", "Net Tangible Assets", "Operating Cash Flow",
     "Capital Expenditure", "Free Cash Flow", "Total Capitalization", "Retained Earnings",
     "Diluted EPS"}

\* np.mean of the values of three years
Mean3(a, b, c) == FDiv(FAdd(FAdd(a, b), c), Num(3))

\* lines 20-44 with prefix '', by_year[y] being metric_func(df, years[y]): the
\* metrics of years[0], and their average over the first three years under
\* the key k_avg when there are three
calculate_historical_average(by_year) ==
    IF Len(by_year) >= 3
    THEN [k \in {n \o "_avg" : n \in DOMAIN by_year[1]} |->
             Mean3(by_year[1][CHOOSE n \in DOMAIN by_year[1] : n \o "_avg" = k],
                   by_year[2][CHOOSE n \in DOMAIN by_year[1] : n \o "_avg" = k],
                   by_year[3][CHOOSE n \in DOMAIN by_year[1] : n \o "_avg" = k])]
         @@ by_year[1]
    ELSE by_year[1]

\* lines 163-170; a comparison with NaN is false
market_cap_category(market_cap) ==
    IF ~FLess(market_cap, Num(MarketCapHigh)) /\ ~IsNa(market_cap) THEN "high"
    ELSE IF ~FLess(market_cap, Num(MarketCapMedium)) /\ ~IsNa(market_cap) THEN "medium"
    ELSE "low"

\* line 146
YearColumns(t) == SelectPos(t.columns, [j \in 1..NCols(t) |-> t.columns[j] # Name("Company")], 1)

\* lines 148-172 on the preprocessed table
all_features(t, years) ==
    ("Company" :> Column(t, "Company")[1])
    @@ calculate_historical_average([y \in 1..Len(years) |-> calculate_basic_ratios(t, years[y])])
    @@ calculate_historical_average([y \in 1..Len(years) |-> calculate_valuation_metrics(t, years[y])])
    @@ calculate_altman_z_score(t, years[1])
    @@ calculate_graham_metrics(t, years[1])
    @@ ("market_cap_category" :> market_cap_category(Loc(t, "Total Capitalization", years[1])))

\* lines 146-172: df['Company'] and a missing line item raise KeyError, iloc[0]
\* and years[0] IndexError; with two columns of one year df.loc gives a Series,
\* whose comparison at line 165 raises ValueError
features_of(t) ==
    IF ~HasColumn(t, "Company") THEN Raise("KeyError")
    ELSE IF NRows(t) = 0 \/ YearColumns(t) = <<>> THEN Raise("IndexError")
    ELSE IF \E r \in FeatureRows : ~HasRow(t, r) THEN Raise("KeyError")
    ELSE IF \E i, j \in 1..NCols(t) : i # j /\ t.columns[i] = t.columns[j] THEN Raise("ValueError")
    ELSE Return(all_features(t, YearColumns(t)))

\* generate_all_features (lines 143-172)
generate_all_features_propagate(t) ==
    IF preprocess_data(t).raised # "" THEN preprocess_data(t)
    ELSE features_of(preprocess_data(t).val)

\* the feature row of one company, stored unless generate_all_features raised
\* (lines 179-184)
company_rows(o) == IF o.raised # "" THEN <<>> ELSE <<o.val>>

\* process_multiple_companies (lines 174-186), from company i on; each call is
\* made on the table of df_dict itself
RECURSIVE process_multiple_companies_from(_, _)
process_multiple_companies_from(df_dict, i) ==
    IF i > Len(df_dict) THEN <<>>
    ELSE company_rows(generate_all_features_propagate(df_dict[i].val))
         \o process_multiple_companies_from(df_dict, i + 1)

\* the tables of df_dict after process_multiple_companies
process_multiple_companies_effect(df_dict) ==
    [i \in DOMAIN df_dict |-> Entry(df_dict[i].key, preprocess_data_effect(df_dict[i].val).caller)]

----------------------------------------------------------------------------
(* SpecFeatures: generate_all_features is called twice on one wide table,  *)
(* process_multiple_companies twice on one dict of wide tables.            *)

\* the rows of a wide table, in order
WideIndex ==
    <<"Net Income", "Total Revenue", "Cost Of Revenue", "Current Assets", "Current Liabilities",
      "End Cash Position", "Total Assets", "Total Debt", "Total Equity Gross Minority Interest",
      "Operating Income", "Working Capital", "Net Tangible Assets", "Operating Cash Flow",
      "Capital Expenditure", "Free Cash Flow", "Total Capitalization", "Retained Earnings",
      "Diluted EPS">>

\* the name of company c, a text cell
CompanyCell(c) == [k |-> "str", n |-> c, d |-> 1]

WideCells == {NaN, Num(0), Num(-4), Num(MarketCapMedium), Num(MarketCapHigh)}

\* a wide table of company c over the fiscal years n, n-1, .. 1, newest first,
\* whose cell of line item r in the newest year is v
WideTable(n, r, v, c) ==
    DataFrame([i \in 1..Len(WideIndex) |-> Name(WideIndex[i])],
              [j \in 1..(n + 1) |-> IF j <= n THEN TS((n + 1 - j) * TicksPerYear + 1)
                                    ELSE Name("Company")],
              [i \in 1..Len(WideIndex) |-> [j \in 1..(n + 1) |->
                  IF j > n THEN CompanyCell(c)
                  ELSE IF i = r /\ j = 1 THEN v
                  ELSE Num(2 * j)]])

WideYears == 1..(MaxPeriods + 1)

WideFull == {WideTable(n, r, v, 1) : n \in WideYears, r \in 1..Len(WideIndex), v \in WideCells}

\* the table without its row i
DropRow(t, i) == FilterRows(t, [h \in 1..NRows(t) |-> h # i])

\* tables on which generate_all_features raises: no columns, no rows, no column
\* Company, a line item missing, two columns of one year, year labels that
\* are text already
WideFaulty ==
    {EmptyDataFrame,
     FilterRows(WideTable(1, 1, NaN, 1), [h \in 1..Len(WideIndex) |-> FALSE]),
     DropColumn(WideTable(2, 1, NaN, 1), 3),
     DropRow(WideTable(1, 1, NaN, 1), Len(WideIndex)),
     [WideTable(2, 1, NaN, 1) EXCEPT !.columns[2] = TS(2 * TicksPerYear)],
     [WideTable(2, 1, NaN, 1) EXCEPT !.columns = cleaned_cols(WideTable(2, 1, NaN, 1))]}

WideInputs == WideFull \cup WideFaulty

\* the tables of a dict of companies
CompanyTables(c) ==
    {WideTable(n, Len(WideIndex), v, c) : n \in {1, MaxPeriods + 1}, v \in {NaN, Num(MarketCapHigh)}}
    \cup {DropColumn(WideTable(1, 1, NaN, c), 2)}

CompanyDicts ==
    {<<Entry("A", a)>> : a \in CompanyTables(1)}
    \cup {<<Entry("A", a), Entry("B", b)>> : a \in CompanyTables(1), b \in CompanyTables(2)}

InitFeatures ==
    /\ \/ pc = "generate_all_features" /\ df \in WideInputs /\ data_dict = NoBundle
       \/ pc = "process_multiple_companies" /\ df = EmptyDataFrame /\ data_dict \in CompanyDicts
    /\ pandas_pad = TRUE
    /\ statement_type = ""
    /\ processed_data = NoBundle
    /\ result = NoOutcome
    /\ first = NoOutcome
    /\ now = 0
    /\ caught = ""
    /\ max_age = max_age_days_default

\* generate_all_features(df): df names the caller's table
GenerateAllFeatures ==
    /\ pc = "generate_all_features"
    /\ result' = generate_all_features_propagate(df)
    /\ df' = preprocess_data_effect(df).caller
    /\ pc' = "generated"
    /\ UNCHANGED <<statement_type, data_dict, processed_data, first, now, pandas_pad, caught, max_age>>

\* the same call again, on the same table
GenerateAllFeaturesAgain ==
    /\ pc = "generated"
    /\ first' = result
    /\ result' = generate_all_features_propagate(df)
    /\ df' = preprocess_data_effect(df).caller
    /\ pc' = "generated_again"
    /\ UNCHANGED <<statement_type, data_dict, processed_data, now, pandas_pad, caught, max_age>>

\* process_multiple_companies(df_dict)
ProcessMultipleCompanies ==
    /\ pc = "process_multiple_companies"
    /\ result' = Return(process_multiple_companies_from(data_dict, 1))
    /\ data_dict' = process_multiple_companies_effect(data_dict)
    /\ pc' = "processed"
    /\ UNCHANGED <<df, statement_type, processed_data, first, now, pandas_pad, caught, max_age>>

\* the same call again, on the same dict
ProcessMultipleCompaniesAgain ==
    /\ pc = "processed"
    /\ first' = result
    /\ result' = Return(process_multiple_companies_from(data_dict, 1))
    /\ data_dict' = process_multiple_companies_effect(data_dict)
    /\ pc' = "processed_again"
    /\ UNCHANGED <<df, statement_type, processed_data, now, pandas_pad, caught, max_age>>

NextFeatures ==
    \/ GenerateAllFeatures
    \/ GenerateAllFeaturesAgain
    \/ ProcessMultipleCompanies
    \/ ProcessMultipleCompaniesAgain

SpecFeatures == InitFeatures /\ [][NextFeatures]_vars

\* two calls ended alike: the same exception, or the same returned value
SameOutcome(a, b) == a.raised = b.raised /\ (a.raised = "" => a.val = b.val)

\* C23: feature generation is repeatable on the same input: the second call of
\* generate_all_features on a wide table, and of process_multiple_companies
\* on a dict of wide tables, gives the feature rows of the first call, and no
\* call changes the labels or cells of the tables it is given.
C23_Repeatable ==
    /\ [](pc \in {"generated_again", "processed_again"} => SameOutcome(result, first))
    /\ [][df' = df /\ data_dict' = data_dict]_vars

=============================================================================
